---------------------------- MODULE Spec2Model ----------------------------
(***************************************************************************)
(* A model of the mid-end passes of the Leo compiler:                      *)
(*   - static single assignment (passes/src/static_single_assignment),     *)
(*   - conditional flattening   (passes/src/flatten_conditionals),         *)
(*   - dead code elimination    (passes/src/dead_code_elimination).        *)
(* The AST is encoded with tagged tuples; every pass is a recursive        *)
(* operator that threads the state of its reducer, and the driver applies  *)
(* a pass to the program one function at a time, as reduce_program does.   *)
(***************************************************************************)
EXTENDS Integers, Sequences, FiniteSets, TLC

VARIABLES
    asts,            \* asts[1] is the parsed program, asts[k+1] the program after the k-th pass
    done,            \* the names of the passes that have completed, in order
    pc,              \* "idle", the name of the running pass, or "aborted"
    panic,           \* "none", or the function whose panic aborted the compilation
    fidx,            \* index of the next function the running pass reduces
    out,             \* the functions the running pass has produced so far
    counter,         \* StaticSingleAssignmentReducer.counter
    rename_table,    \* StaticSingleAssignmentReducer.rename_table, root frame first
    is_lhs,          \* StaticSingleAssignmentReducer.is_lhs
    phi_functions,   \* StaticSingleAssignmentReducer.phi_functions
    marked,          \* DeadCodeEliminator.marked (the symbols mapped to true)
    is_critical,     \* DeadCodeEliminator.is_critical
    ids,             \* history: the values get_unique_id returned in the running SSA pass
    alog,            \* history: one record per Definition/Assign the SSA pass converted
    clog,            \* history: one record per conditional the SSA pass converted
    flog,            \* history: one record per rename frame that was pushed and popped
    structs,         \* Flattener.structs: the identifiers known to hold an aggregate
    assigner,        \* Flattener: the counter behind unique_simple_assign_statement
    lowered,         \* history: one record per ternary expression the Flattener lowered
    items,           \* the functions and aggregates the type checker visits, in visit order
    visited,         \* the number of items the type checker has visited
    handler,         \* Handler: the errors emitted so far, in order
    is_program_function,  \* TypeChecker.is_program_function
    is_inlined,      \* TypeChecker.is_inlined
    has_return,      \* TypeChecker.has_return
    symbol_table,    \* TypeChecker.symbol_table: the current scope
    core             \* history: one record per call of check_core_circuit_call

\* the state of the SSA, flattening and DCE pipeline
pipeline_vars == <<asts, done, pc, panic, fidx, out, counter, rename_table, is_lhs, phi_functions,
                   marked, is_critical, ids, alog, clog, flog>>

\* the state of the ternary lowering
lowering_vars == <<structs, assigner, lowered>>

\* the state of the type checker
checker_vars == <<items, visited, handler, is_program_function, is_inlined, has_return,
                  symbol_table, core>>

vars == <<pipeline_vars, lowering_vars, checker_vars>>

-----------------------------------------------------------------------------
(* Bounds of the model.                                                    *)

\* number of statements drawn from the pool between the two definitions
\* that open a function body and the return that closes it
MaxStmts == 2
\* number of else-if links generated after the first `if`
MaxChain == 2
\* number of passes the driver applies to one program
MaxPasses == 3

-----------------------------------------------------------------------------
(* The AST (leo_ast), as tagged tuples.                                    *)
(*   name        : <<"x">>, and after renaming <<"x", 3>> for x$3          *)
(*   expression  : <<"Id", name>> | <<"Lit", n>> | <<"Bin", op, l, r>>     *)
(*                 | <<"Tern", c, t, f>> | <<"Access", inner, member>>     *)
(*                 | <<"Tuple", elements>> | <<"Struct", name, members>>   *)
(*   initializer : <<identifier, expression>>, a member of a Struct        *)
(*   statement   : <<"Return", e>> | <<"Def", name, e>>                    *)
(*                 | <<"Assign", op, name, e>> | <<"Cond", c, block, next>>*)
(*                 | <<"Console", e>> | <<"Block", block>>                 *)
(*   block       : a sequence of statements                                *)
(*   next        : <<>> (None) or <<statement>> (Some)                     *)
(*   function    : <<name, inputs, block>>                                 *)

Id(n) == <<"Id", n>>
Lit(v) == <<"Lit", v>>
Bin(op, l, r) == <<"Bin", op, l, r>>
Tern(c, t, f) == <<"Tern", c, t, f>>
Access(inner, name) == <<"Access", inner, name>>
TupleExpr(elements) == <<"Tuple", elements>>
StructInit(name, members) == <<"Struct", name, members>>
Return(e) == <<"Return", e>>
Def(n, e) == <<"Def", n, e>>
Assign(op, n, e) == <<"Assign", op, n, e>>
Cond(c, b, nx) == <<"Cond", c, b, nx>>
Console(e) == <<"Console", e>>
Block(b) == <<"Block", b>>
None == <<>>
Some(s) == <<s>>

Kind(s) == s[1]

\* Symbol::intern(&format!("{}${}", name, id))
Renamed(name, id) == Append(name, id)

\* Symbol::intern(&format!("cond${}", id))
CondName(id) == <<"cond", id>>

RECURSIVE ExprIds(_)
\* the identifiers an expression reads
ExprIds(e) ==
    CASE Kind(e) = "Id" -> {e[2]}
      [] Kind(e) = "Lit" -> {}
      [] Kind(e) = "Bin" -> ExprIds(e[3]) \cup ExprIds(e[4])
      [] Kind(e) = "Tern" -> ExprIds(e[2]) \cup ExprIds(e[3]) \cup ExprIds(e[4])

RECURSIVE FlatStmts(_)
\* every statement of a block, at any depth, in source order
FlatStmts(b) ==
    IF b = <<>> THEN <<>>
    ELSE LET s == Head(b)
             inner == CASE Kind(s) = "Cond" -> FlatStmts(s[3]) \o FlatStmts(s[4])
                        [] Kind(s) = "Block" -> FlatStmts(s[2])
                        [] OTHER -> <<>>
         IN <<s>> \o inner \o FlatStmts(Tail(b))

Range(f) == {f[i] : i \in DOMAIN f}

\* every statement of every function of a program
ProgStmts(p) == UNION {Range(FlatStmts(p[i][3])) : i \in DOMAIN p}

\* the Assign statements of a block, at any depth, in source order
BlockAssigns(b) == SelectSeq(FlatStmts(b), LAMBDA s : Kind(s) = "Assign")

RECURSIVE ProgAssigns(_)
\* the Assign statements of a program, function after function
ProgAssigns(p) ==
    IF p = <<>> THEN <<>>
    ELSE BlockAssigns(Head(p)[3]) \o ProgAssigns(Tail(p))

-----------------------------------------------------------------------------
(* RenameTable (static_single_assignment/rename_table.rs): a frame is an   *)
(* insertion-ordered map, kept as a sequence of <<symbol, name>> pairs; a  *)
(* table is the chain of frames from the root to the current frame.        *)

\* Option::None of a lookup
NoName == <<>>

FrameHas(frame, symbol) == \E i \in DOMAIN frame : frame[i][1] = symbol

FrameGet(frame, symbol) ==
    frame[CHOOSE i \in DOMAIN frame : frame[i][1] = symbol][2]

\* IndexMap::insert: a known key keeps its position and takes the new value
FrameInsert(frame, symbol, name) ==
    IF FrameHas(frame, symbol)
    THEN [i \in DOMAIN frame |->
            IF frame[i][1] = symbol THEN <<symbol, name>> ELSE frame[i]]
    ELSE Append(frame, <<symbol, name>>)

Last(q) == q[Len(q)]
Front(q) == SubSeq(q, 1, Len(q) - 1)

\* RenameTable::get_local_names: the keys of the current frame, in insertion order
LocalNames(table) == [i \in DOMAIN Last(table) |-> Last(table)[i][1]]

RECURSIVE Lookup(_, _)
\* RenameTable::lookup: the binding of the current frame, else the parent's
Lookup(table, symbol) ==
    IF table = <<>> THEN NoName
    ELSE IF FrameHas(Last(table), symbol) THEN FrameGet(Last(table), symbol)
    ELSE Lookup(Front(table), symbol)

\* RenameTable::update: binds the symbol in the current frame
Update(table, symbol, name) ==
    [table EXCEPT ![Len(table)] = FrameInsert(@, symbol, name)]

\* the table of a fresh pass: a root frame without parent
RootTable == << <<>> >>

\* StaticSingleAssignmentReducer::push
Push(table) == Append(table, <<>>)

\* fault: a pop that leaves the first binding of the child in the parent frame
PopMerged(table) ==
    IF Last(table) = <<>> THEN Front(table)
    ELSE [Front(table) EXCEPT
            ![Len(table) - 1] = FrameInsert(@, Last(table)[1][1], Last(table)[1][2])]

\* StaticSingleAssignmentReducer::pop: the table that becomes current
PopParent(table) == Front(table)

\* StaticSingleAssignmentReducer::pop: the table that is returned
PopChild(table) == table

-----------------------------------------------------------------------------
(* The SSA pass. `st` is the state of the reducer together with the        *)
(* history of the pass; st.ok is FALSE once the pass has panicked, and a   *)
(* panicked pass executes nothing more.                                    *)

\* fault: get_unique_id without `self.counter += 1`
StuckCounter(c) == c

\* StaticSingleAssignmentReducer::get_unique_id, the new value of the counter
NextCounter(c) == c + 1

\* StaticSingleAssignmentReducer::get_unique_id
GetUniqueId(st) ==
    [st |-> [st EXCEPT !.counter = NextCounter(st.counter),
                       !.ids = Append(@, st.counter)],
     id |-> st.counter]

\* StaticSingleAssignmentReducer::reduce_identifier
ReduceIdentifier(st, name) ==
    IF st.is_lhs
    THEN LET u == GetUniqueId(st)
             new_name == Renamed(name, u.id)
         IN [st |-> [u.st EXCEPT !.table = Update(u.st.table, name, new_name)],
             name |-> new_name]
    ELSE LET found == Lookup(st.table, name)
         IN IF found = NoName
            THEN [st |-> [st EXCEPT !.ok = FALSE, !.panic = "reduce_identifier"],
                  name |-> name]
            ELSE [st |-> st, name |-> found]

RECURSIVE ReduceExpression(_, _)
\* ExpressionReducerDirector::reduce_expression, with reduce_identifier applied to
\* every identifier from left to right
ReduceExpression(st, e) ==
    IF ~st.ok THEN [st |-> st, e |-> e]
    ELSE CASE Kind(e) = "Id" ->
                LET r == ReduceIdentifier(st, e[2])
                IN [st |-> r.st, e |-> Id(r.name)]
           [] Kind(e) = "Lit" -> [st |-> st, e |-> e]
           [] Kind(e) = "Bin" ->
                LET l == ReduceExpression(st, e[3])
                    r == ReduceExpression(l.st, e[4])
                IN [st |-> r.st, e |-> Bin(e[2], l.e, r.e)]
           [] Kind(e) = "Tern" ->
                LET c == ReduceExpression(st, e[2])
                    t == ReduceExpression(c.st, e[3])
                    f == ReduceExpression(t.st, e[4])
                IN [st |-> f.st, e |-> Tern(c.e, t.e, f.e)]

\* the BinaryOperation a compound AssignOperation lowers to
BinaryOperationOf(op) ==
    CASE op = "Add" -> "+"
      [] op = "Sub" -> "-"
      [] op = "Mul" -> "*"
      [] op = "Div" -> "/"
      [] op = "Pow" -> "**"
      [] op = "Or" -> "||"
      [] op = "And" -> "&&"

\* the left operand reduce_to_binary_operation gives the lowered assignment:
\* the identifier of the reduced assignee
CompoundLeft(assignee, old_name) == assignee

\* StaticSingleAssignmentReducer::reduce_assign
ReducerReduceAssign(op, assignee, old_name, value) ==
    Assign("Assign", assignee,
           IF op = "Assign" THEN value
           ELSE Bin(BinaryOperationOf(op), Id(CompoundLeft(assignee, old_name)), value))

\* the history record of one converted Definition or Assign
LogAssign(st, op, symbol, old, new_name, src, stmt) ==
    [st EXCEPT !.alog = Append(@, [op |-> op, symbol |-> symbol, old |-> old,
                                   new |-> new_name, src |-> src, stmt |-> stmt])]

\* Director::reduce_definition, once the name and the value are reduced (the
\* Definition is kept; reduce_block of the reducer turns it into an Assign)
DefinitionDone(value, old, new_name, s) ==
    IF ~value.st.ok THEN [st |-> value.st, s |-> s]
    ELSE [st |-> LogAssign(value.st, "Def", s[2], old, new_name, s, Def(new_name, value.e)),
          s |-> Def(new_name, value.e)]

\* Director::reduce_definition, once the name is reduced
DefinitionValue(lhs, old, s) ==
    DefinitionDone(ReduceExpression([lhs.st EXCEPT !.is_lhs = FALSE], s[3]),
                   old, lhs.name, s)

\* Director::reduce_definition
ReduceDefinition(st, s) ==
    DefinitionValue(ReduceIdentifier([st EXCEPT !.is_lhs = TRUE], s[2]),
                    Lookup(st.table, s[2]), s)

\* Director::reduce_assign, once the assignee and the value are reduced
AssignDone(value, old, new_name, s) ==
    IF ~value.st.ok THEN [st |-> value.st, s |-> s]
    ELSE [st |-> LogAssign(value.st, s[2], s[3], old, new_name, s,
                           ReducerReduceAssign(s[2], new_name, old, value.e)),
          s |-> ReducerReduceAssign(s[2], new_name, old, value.e)]

\* Director::reduce_assign, once the assignee is reduced
AssignValue(lhs, old, s) ==
    AssignDone(ReduceExpression([lhs.st EXCEPT !.is_lhs = FALSE], s[4]),
               old, lhs.name, s)

\* Director::reduce_assign
ReduceAssign(st, s) ==
    AssignValue(ReduceIdentifier([st EXCEPT !.is_lhs = TRUE], s[3]),
                Lookup(st.table, s[3]), s)

\* IndexSet::union: the elements of the first sequence, then those of the second
\* that the first does not hold
UnionOrder(first, second) ==
    first \o SelectSeq(second, LAMBDA k : \A i \in DOMAIN first : first[i] # k)

\* whether reduce_block of the reducer introduces an assignment for a condition
NeedsHoist(condition) == Kind(condition) \in {"Bin", "Tern"}

\* the condition reduce_block of the reducer leaves in a conditional whose
\* condition it has assigned to cond_name
HoistedCondition(condition, cond_name) == condition

\* fault: reduce_block that takes the phi functions after every statement but a
\* conditional
TakesPhiAfterOthers(s) == Kind(s) # "Cond"

\* Director::reduce_block, whether the phi functions are taken after statement s
TakesPhi(s) == Kind(s) = "Cond"

\* fault: the phi function with if_true and if_false exchanged
PhiStepSwapped(u, symbol, if_name, else_name, condition) ==
    [u.st EXCEPT !.table = Update(@, symbol, Renamed(symbol, u.id)),
                 !.phi = Append(@, Assign("Assign", Renamed(symbol, u.id),
                                          Tern(condition, Id(else_name), Id(if_name))))]

\* Director::reduce_conditional, the phi function of one symbol of the write set
PhiStep(u, symbol, if_name, else_name, condition) ==
    [u.st EXCEPT !.table = Update(@, symbol, Renamed(symbol, u.id)),
                 !.phi = Append(@, Assign("Assign", Renamed(symbol, u.id),
                                          Tern(condition, Id(if_name), Id(else_name))))]

RECURSIVE PhiLoop(_, _, _, _, _)
\* Director::reduce_conditional, the loop over the write set
PhiLoop(st, write_set, if_table, else_table, condition) ==
    IF write_set = <<>> \/ ~st.ok THEN st
    ELSE IF Lookup(if_table, Head(write_set)) = NoName
            \/ Lookup(else_table, Head(write_set)) = NoName
    THEN [st EXCEPT !.ok = FALSE, !.panic = "reduce_conditional"]
    ELSE PhiLoop(PhiStep(GetUniqueId(st), Head(write_set),
                         Lookup(if_table, Head(write_set)),
                         Lookup(else_table, Head(write_set)), condition),
                 Tail(write_set), if_table, else_table, condition)

\* StaticSingleAssignmentReducer::reduce_block, the assignment of a condition
HoistStep(u, s) ==
    [st |-> u.st,
     b |-> << Assign("Assign", CondName(u.id), s[2]),
              Cond(HoistedCondition(s[2], CondName(u.id)), s[3], s[4]) >>]

\* fault: reduce_block of the reducer without its Definition and Conditional arms
KeepStatement(st, s) == [st |-> st, b |-> <<s>>]

\* StaticSingleAssignmentReducer::reduce_block, what one statement becomes
ReducerReduceOne(st, s) ==
    CASE Kind(s) = "Def" -> [st |-> st, b |-> <<Assign("Assign", s[2], s[3])>>]
      [] Kind(s) = "Cond" /\ NeedsHoist(s[2]) -> HoistStep(GetUniqueId(st), s)
      [] OTHER -> [st |-> st, b |-> <<s>>]

RECURSIVE ReducerReduceBlockLoop(_, _, _)
\* StaticSingleAssignmentReducer::reduce_block, the loop over the statements
ReducerReduceBlockLoop(one, statements, new_statements) ==
    IF statements = <<>>
    THEN [st |-> one.st, b |-> new_statements \o one.b]
    ELSE ReducerReduceBlockLoop(ReducerReduceOne(one.st, Head(statements)),
                                Tail(statements), new_statements \o one.b)

\* StaticSingleAssignmentReducer::reduce_block
ReducerReduceBlock(st, statements) ==
    IF ~st.ok THEN [st |-> st, b |-> statements]
    ELSE ReducerReduceBlockLoop([st |-> st, b |-> <<>>], statements, <<>>)

RECURSIVE ReduceStatement(_, _)
RECURSIVE ReduceBlockLoop(_, _, _)
RECURSIVE ReduceConditional(_, _)

\* Director::reduce_block, after one statement is reduced: a conditional is
\* followed by the phi functions, which clear_phi_functions takes
ReduceBlockStep(r, block, statements) ==
    IF ~r.st.ok THEN [st |-> r.st, b |-> statements]
    ELSE IF TakesPhi(Head(block))
    THEN ReduceBlockLoop([r.st EXCEPT !.phi = <<>>], Tail(block),
                         Append(statements, r.s) \o r.st.phi)
    ELSE ReduceBlockLoop(r.st, Tail(block), Append(statements, r.s))

\* Director::reduce_block, the loop over the statements of the block
ReduceBlockLoop(st, block, statements) ==
    IF block = <<>> \/ ~st.ok THEN [st |-> st, b |-> statements]
    ELSE ReduceBlockStep(ReduceStatement(st, Head(block)), block, statements)

\* Director::reduce_block, the call of reduce_block of the reducer
ReduceBlockDone(r) == ReducerReduceBlock(r.st, r.b)

\* Director::reduce_block
ReduceBlock(st, block) == ReduceBlockDone(ReduceBlockLoop(st, block, <<>>))

\* the history record of one frame that was pushed and popped
LogFrame(st, kind, before) ==
    [st EXCEPT !.flog = Append(@, [kind |-> kind, before |-> before, after |-> st.table])]

\* the history record of one converted conditional
LogConditional(st, condition, entry, if_table, else_table, phis_before, stmt) ==
    [st EXCEPT !.clog = Append(@,
        [condition |-> condition, entry |-> entry, stmt |-> stmt,
         if_frame |-> Last(if_table), else_frame |-> Last(else_table),
         phis |-> SubSeq(st.phi, phis_before + 1, Len(st.phi)),
         exit |-> st.table])]

\* Director::reduce_conditional, once the phi functions are built
ConditionalDone(st, condition, entry, block, next, if_table, else_table, phis_before, s) ==
    IF ~st.ok THEN [st |-> st, s |-> s]
    ELSE [st |-> LogConditional(st, condition, entry, if_table, else_table, phis_before,
                                Cond(condition, block, next)),
          s |-> Cond(condition, block, next)]

\* Director::reduce_conditional, after the second pop
ConditionalPhi(st, condition, entry, block, next, if_table, else_table, s) ==
    ConditionalDone(
        PhiLoop(st, UnionOrder(LocalNames(if_table), LocalNames(else_table)),
                if_table, else_table, condition),
        condition, entry, block, next, if_table, else_table, Len(st.phi), s)

\* Director::reduce_conditional, once the statement after `else` is reduced
ConditionalElse(next, before, condition, entry, block, if_table, s) ==
    IF ~next.st.ok THEN [st |-> next.st, s |-> s]
    ELSE ConditionalPhi(
            LogFrame([next.st EXCEPT !.table = PopParent(@)], "else", before),
            condition, entry, block, next.s, if_table, PopChild(next.st.table), s)

\* Option::map over the reduced statement after `else`
NextDone(n) == [st |-> n.st, s |-> Some(n.s)]

\* Director::reduce_conditional, the statement after `else` in the frame pushed for it
ConditionalNext(st, s) ==
    IF s[4] = None THEN [st |-> st, s |-> None]
    ELSE NextDone(ReduceStatement(st, s[4][1]))

\* Director::reduce_conditional, once the block is reduced
ConditionalThen(block, condition, entry, s) ==
    IF ~block.st.ok THEN [st |-> block.st, s |-> s]
    ELSE ConditionalElse(
            ConditionalNext(
                [LogFrame([block.st EXCEPT !.table = PopParent(@)], "then", entry)
                    EXCEPT !.table = Push(@)], s),
            PopParent(block.st.table),
            condition, entry, block.b, PopChild(block.st.table), s)

\* Director::reduce_conditional, once the condition is reduced
ConditionalBlock(condition, s) ==
    IF ~condition.st.ok THEN [st |-> condition.st, s |-> s]
    ELSE ConditionalThen(ReduceBlock([condition.st EXCEPT !.table = Push(@)], s[3]),
                         condition.e, condition.st.table, s)

\* Director::reduce_conditional
ReduceConditional(st, s) == ConditionalBlock(ReduceExpression(st, s[2]), s)

\* StatementReducerDirector::reduce_return
ReturnDone(e) == [st |-> e.st, s |-> Return(e.e)]

\* StatementReducerDirector::reduce_console
ConsoleDone(e) == [st |-> e.st, s |-> Console(e.e)]

\* StatementReducerDirector::reduce_statement, a Block statement
BlockDone(b) == [st |-> b.st, s |-> Block(b.b)]

\* StatementReducerDirector::reduce_statement, with the methods Director overrides
ReduceStatement(st, s) ==
    IF ~st.ok THEN [st |-> st, s |-> s]
    ELSE CASE Kind(s) = "Return" -> ReturnDone(ReduceExpression(st, s[2]))
           [] Kind(s) = "Console" -> ConsoleDone(ReduceExpression(st, s[2]))
           [] Kind(s) = "Def" -> ReduceDefinition(st, s)
           [] Kind(s) = "Assign" -> ReduceAssign(st, s)
           [] Kind(s) = "Cond" -> ReduceConditional(st, s)
           [] Kind(s) = "Block" -> BlockDone(ReduceBlock(st, s[2]))

RECURSIVE SeedInputs(_, _)
\* Director::reduce_function, the loop that binds every input to its own name
SeedInputs(table, inputs) ==
    IF inputs = <<>> THEN table
    ELSE SeedInputs(Update(table, Head(inputs), Head(inputs)), Tail(inputs))

\* fault: reduce_function without its pop
LeaveFunctionNoPop(table) == table

\* the table reduce_function leaves current when the body has been reduced
LeaveFunction(table) == PopParent(table)

\* Director::reduce_function, once the body is reduced
FunctionDone(block, before, f) ==
    IF ~block.st.ok THEN [st |-> block.st, f |-> f]
    ELSE [st |-> LogFrame([block.st EXCEPT !.table = LeaveFunction(@)], "function", before),
          f |-> <<f[1], f[2], block.b>>]

\* Director::reduce_function
ReduceFunction(st, f) ==
    FunctionDone(ReduceBlock([st EXCEPT !.table = SeedInputs(Push(@), f[2])], f[3]),
                 st.table, f)

-----------------------------------------------------------------------------
(* The conditional flattening pass: the default director walks the tree    *)
(* bottom-up and hands every block to reduce_block of the reducer.         *)

\* fault: reduce_block with the statement after `else` pushed before the block
FlattenOneElseFirst(statement) ==
    IF Kind(statement) = "Cond" THEN statement[4] \o statement[3] ELSE <<statement>>

\* FlattenConditionalStatements::reduce_block, what one statement contributes
FlattenOne(statement) ==
    IF Kind(statement) = "Cond" THEN statement[3] \o statement[4] ELSE <<statement>>

RECURSIVE FlattenReducerReduceBlock(_)
\* FlattenConditionalStatements::reduce_block
FlattenReducerReduceBlock(statements) ==
    IF statements = <<>> THEN <<>>
    ELSE FlattenOne(Head(statements)) \o FlattenReducerReduceBlock(Tail(statements))

RECURSIVE FlattenReduceStatement(_)
RECURSIVE FlattenReduceBlock(_)
RECURSIVE FlattenReduceEach(_)

\* StatementReducerDirector::reduce_block, the loop that reduces every statement
FlattenReduceEach(block) ==
    IF block = <<>> THEN <<>>
    ELSE <<FlattenReduceStatement(Head(block))>> \o FlattenReduceEach(Tail(block))

\* StatementReducerDirector::reduce_statement and reduce_conditional
FlattenReduceStatement(s) ==
    CASE Kind(s) = "Cond" ->
            Cond(s[2], FlattenReduceBlock(s[3]),
                 IF s[4] = None THEN None ELSE Some(FlattenReduceStatement(s[4][1])))
      [] Kind(s) = "Block" -> Block(FlattenReduceBlock(s[2]))
      [] OTHER -> s

\* StatementReducerDirector::reduce_block
FlattenReduceBlock(block) ==
    FlattenReducerReduceBlock(FlattenReduceEach(block))

\* ProgramReducerDirector::reduce_function
FlattenReduceFunction(f) == <<f[1], f[2], FlattenReduceBlock(f[3])>>

-----------------------------------------------------------------------------
(* The dead code elimination pass. `d` is the state of the eliminator:     *)
(* d.marked, d.is_critical, and d.ok, FALSE once the pass has panicked.    *)

\* Marks compared by source name, as if places were not unique in the program.
IsMarkedBySourceName(d, symbol) == \E m \in d.marked : m[1] = symbol[1]

\* DeadCodeEliminator::is_marked
IsMarked(d, symbol) == symbol \in d.marked

\* DeadCodeEliminator::reduce_identifier
DceReduceIdentifier(d, name) ==
    IF d.is_critical THEN [d EXCEPT !.marked = @ \cup {name}] ELSE d

RECURSIVE DceReduceExpression(_, _)
\* ExpressionReducerDirector::reduce_expression over the eliminator
DceReduceExpression(d, e) ==
    CASE Kind(e) = "Id" -> DceReduceIdentifier(d, e[2])
      [] Kind(e) = "Lit" -> d
      [] Kind(e) = "Bin" -> DceReduceExpression(DceReduceExpression(d, e[3]), e[4])
      [] Kind(e) = "Tern" ->
            DceReduceExpression(
                DceReduceExpression(DceReduceExpression(d, e[2]), e[3]), e[4])

\* Director::reduce_return and Director::reduce_console
DceReduceCritical(d, e) ==
    [DceReduceExpression([d EXCEPT !.is_critical = TRUE], e) EXCEPT !.is_critical = FALSE]

\* fault: reduce_assign without set_critical
DceAssignNeverCritical(d, s) == d

\* fault: reduce_assign with set_critical outside the is_marked test
DceAssignAlwaysCritical(d, s) ==
    [DceReduceExpression([d EXCEPT !.is_critical = TRUE], s[4]) EXCEPT !.is_critical = FALSE]

\* Director::reduce_assign
DceReduceAssignValue(d, s) ==
    [DceReduceExpression(IF IsMarked(d, s[3]) THEN [d EXCEPT !.is_critical = TRUE] ELSE d,
                         s[4])
        EXCEPT !.is_critical = FALSE]

\* Director::reduce_assign, the assignee first
DceReduceAssign(d, s) == DceReduceAssignValue(DceReduceIdentifier(d, s[3]), s)

\* fault: reduce_block without the is_marked test on an Assign
DceKeepsEverything(d, s) == TRUE

\* fault: reduce_block without its Console arm
DceDropsConsole(d, s) == Kind(s) \notin {"Assign", "Console"} \/ (Kind(s) = "Assign" /\ IsMarked(d, s[3]))

\* Director::reduce_block, whether the reduced statement is pushed
DceKeeps(d, s) == Kind(s) # "Assign" \/ IsMarked(d, s[3])

RECURSIVE DceReduceStatement(_, _)
RECURSIVE DceReduceBlockLoop(_, _, _)

\* fault: reduce_block without the final statements.reverse()
DceBlockStepUnreversed(r, block, statements) ==
    IF ~r.d.ok THEN [d |-> r.d, b |-> statements]
    ELSE IF Kind(r.s) \in {"Def", "Cond"}
    THEN [d |-> [r.d EXCEPT !.ok = FALSE], b |-> statements]
    ELSE DceReduceBlockLoop(r.d, Front(block),
            IF DceKeeps(r.d, r.s) THEN statements \o <<r.s>> ELSE statements)

\* Director::reduce_block, the match on one reduced statement
DceReduceBlockStep(r, block, statements) ==
    IF ~r.d.ok THEN [d |-> r.d, b |-> statements]
    ELSE IF Kind(r.s) \in {"Def", "Cond"}
    THEN [d |-> [r.d EXCEPT !.ok = FALSE], b |-> statements]
    ELSE DceReduceBlockLoop(r.d, Front(block),
            IF DceKeeps(r.d, r.s) THEN <<r.s>> \o statements ELSE statements)

\* Director::reduce_block, the loop over the statements in reverse order; the
\* result is built back to front, which is the final statements.reverse()
DceReduceBlockLoop(d, block, statements) ==
    IF block = <<>> \/ ~d.ok THEN [d |-> d, b |-> statements]
    ELSE DceReduceBlockStep(DceReduceStatement(d, Last(block)), block, statements)

\* Director::reduce_block
DceReduceBlock(d, block) == DceReduceBlockLoop(d, block, <<>>)

\* StatementReducerDirector::reduce_statement, a Block statement
DceBlockDone(b) == [d |-> b.d, s |-> Block(b.b)]

\* Option::map over the reduced statement after `else`
DceNextDone(n) == [d |-> n.d, s |-> Some(n.s)]

\* StatementReducerDirector::reduce_conditional, once `next` is reduced
DceConditionalDone(n, block, s) == [d |-> n.d, s |-> Cond(s[2], block, n.s)]

RECURSIVE DceReduceNext(_, _)

\* StatementReducerDirector::reduce_conditional, once the block is reduced
DceConditionalNext(b, s) == DceConditionalDone(DceReduceNext(b.d, s[4]), b.b, s)

\* StatementReducerDirector::reduce_statement over the eliminator
DceReduceStatement(d, s) ==
    IF ~d.ok THEN [d |-> d, s |-> s]
    ELSE CASE Kind(s) \in {"Return", "Console"} -> [d |-> DceReduceCritical(d, s[2]), s |-> s]
           [] Kind(s) = "Assign" -> [d |-> DceReduceAssign(d, s), s |-> s]
           [] Kind(s) = "Def" ->
                [d |-> DceReduceExpression(DceReduceIdentifier(d, s[2]), s[3]), s |-> s]
           [] Kind(s) = "Block" -> DceBlockDone(DceReduceBlock(d, s[2]))
           [] Kind(s) = "Cond" ->
                DceConditionalNext(DceReduceBlock(DceReduceExpression(d, s[2]), s[3]), s)

\* StatementReducerDirector::reduce_conditional, the statement after `else`
DceReduceNext(d, next) ==
    IF next = None THEN [d |-> d, s |-> None]
    ELSE DceNextDone(DceReduceStatement(d, next[1]))

\* ProgramReducerDirector::reduce_function, once the body is reduced
DceFunctionDone(b, f) == [d |-> b.d, f |-> <<f[1], f[2], b.b>>]

\* ProgramReducerDirector::reduce_function
DceReduceFunction(d, f) == DceFunctionDone(DceReduceBlock(d, f[3]), f)

-----------------------------------------------------------------------------
(* Ternary lowering (passes/src/flattening): reconstruct_ternary rewrites a *)
(* ternary expression over tuples and aggregates into assignments of        *)
(* ternary expressions over their members. `fl` is the state of the         *)
(* Flattener: fl.structs, fl.counter, and fl.ok, FALSE once it has panicked.*)
(* A type is <<"U8">>, <<"Boolean">>, ..., the type of an aggregate         *)
(* <<"Identifier", name>>, or <<"Tuple", types>>.                          *)

U8 == <<"U8">>
U64 == <<"U64">>
Boolean == <<"Boolean">>
Address == <<"Address">>
Named(name) == <<"Identifier", name>>
TupleT(types) == <<"Tuple", types>>

\* the aggregates of the symbol table: `circuit Pt { x: u8, y: u8 }` and
\* `circuit Outer { inner: Pt, k: u8 }`
SymbolTableStructs ==
    [Pt |-> [identifier |-> "Pt", members |-> << << <<"x">>, U8 >>, << <<"y">>, U8 >> >>],
     Outer |-> [identifier |-> "Outer",
                members |-> << << <<"inner">>, Named("Pt") >>, << <<"k">>, U8 >> >>]]

\* SymbolTable::lookup_struct
LookupStruct(name) == SymbolTableStructs[name]

\* Option::None of lookup_struct_symbol
NoStruct == ""

\* the type of the member of an aggregate
MemberType(struct, member) ==
    struct.members[CHOOSE i \in DOMAIN struct.members : struct.members[i][1] = member][2]

RECURSIVE LookupStructSymbol(_, _)
\* Flattener::lookup_struct_symbol: the aggregate an identifier or a member access
\* is known to hold
LookupStructSymbol(fl, e) ==
    CASE Kind(e) = "Id" ->
            IF e[2] \in DOMAIN fl.structs THEN fl.structs[e[2]] ELSE NoStruct
      [] Kind(e) = "Access" ->
            LET inner == LookupStructSymbol(fl, e[2])
            IN IF inner = NoStruct THEN NoStruct
               ELSE IF Kind(MemberType(LookupStruct(inner), e[3])) = "Identifier"
               THEN MemberType(LookupStruct(inner), e[3])[2]
               ELSE NoStruct
      [] OTHER -> NoStruct

\* the name unique_simple_assign_statement gives its variable
VarName(id) == <<"var", id>>

\* Flattener::unique_simple_assign_statement
UniqueSimpleAssignStatement(fl, e) ==
    [fl |-> [fl EXCEPT !.counter = @ + 1],
     identifier |-> VarName(fl.counter),
     statement |-> Assign("Assign", VarName(fl.counter), e)]

\* IndexMap::insert on fl.structs
StructsInsert(map, name, struct) ==
    [k \in DOMAIN map \cup {name} |-> IF k = name THEN struct ELSE map[k]]

\* the pair (Expression, Vec<Statement>) a reconstruct method returns, with the state
Rec(fl, e, stmts) == [fl |-> fl, e |-> e, stmts |-> stmts]

RECURSIVE ReconstructExpression(_, _)
RECURSIVE ReconstructTernary(_, _, _, _)
RECURSIVE MemberLoop(_, _, _, _, _, _, _)
RECURSIVE TupleLoop(_, _, _, _, _, _)

\* reconstruct_ternary, the last arm: the assignment of the ternary expression
GenericDone(u, stmts) == Rec(u.fl, Id(u.identifier), Append(stmts, u.statement))

\* reconstruct_ternary, the last arm, once both cases are reconstructed
GenericFalse(if_true, if_false, condition) ==
    GenericDone(UniqueSimpleAssignStatement(if_false.fl, Tern(condition, if_true.e, if_false.e)),
                if_true.stmts \o if_false.stmts)

\* reconstruct_ternary, the last arm, once the true case is reconstructed
GenericTrue(if_true, condition, f) ==
    GenericFalse(if_true, ReconstructExpression(if_true.fl, f), condition)

\* reconstruct_ternary, the arm `(if_true, if_false)` and the arm `_` of the
\* member accesses
GenericTernary(fl, condition, t, f) ==
    GenericTrue(ReconstructExpression(fl, t), condition, f)

\* the StructVariableInitializer of one member: `identifier` is the variable of
\* the intermediate assignment, which shadows the identifier of the member
MemberInitializer(member, identifier) == <<identifier, Id(identifier)>>

\* reconstruct_ternary, one member: the intermediate assignment
MemberAssigned(u, member, stmts) ==
    [fl |-> u.fl, stmts |-> Append(stmts, u.statement),
     init |-> MemberInitializer(member, u.identifier)]

\* reconstruct_ternary, one member, once its ternary expression is reconstructed
MemberTernary(r, member, stmts) ==
    MemberAssigned(UniqueSimpleAssignStatement(r.fl, r.e), member, stmts \o r.stmts)

\* reconstruct_ternary, one member: the ternary expression over the member
MemberStep(fl, condition, first, second, member, stmts) ==
    MemberTernary(ReconstructTernary(fl, condition, Access(first, member[1]),
                                     Access(second, member[1])),
                  member, stmts)

\* reconstruct_ternary, the map over the members: the next member
MemberNext(m, condition, first, second, members, inits) ==
    MemberLoop(m.fl, condition, first, second, members, m.stmts, Append(inits, m.init))

\* reconstruct_ternary, the map over the members of the aggregate
MemberLoop(fl, condition, first, second, members, stmts, inits) ==
    IF members = <<>> \/ ~fl.ok THEN [fl |-> fl, stmts |-> stmts, inits |-> inits]
    ELSE MemberNext(MemberStep(fl, condition, first, second, Head(members), stmts),
                    condition, first, second, Tail(members), inits)

\* ExpressionReconstructor::reconstruct_struct_init
ReconstructStructInit(fl, e) == Rec(fl, e, <<>>)

\* reconstruct_ternary, the assignment of the struct expression, marked as a struct
StructAssigned(u, stmts, name) ==
    Rec([u.fl EXCEPT !.structs = StructsInsert(@, u.identifier, name)],
        Id(u.identifier), Append(stmts, u.statement))

\* reconstruct_ternary, once the struct expression is reconstructed
StructReconstructed(r, stmts, name) ==
    StructAssigned(UniqueSimpleAssignStatement(r.fl, r.e), stmts \o r.stmts, name)

\* reconstruct_ternary, once the members are mapped
StructMembersDone(m, name) ==
    IF ~m.fl.ok THEN Rec(m.fl, StructInit(name, m.inits), m.stmts)
    ELSE StructReconstructed(ReconstructStructInit(m.fl, StructInit(name, m.inits)),
                             m.stmts, name)

\* reconstruct_ternary, the arms over two aggregates, after the assert_eq!
StructTernary(fl, condition, first, second, first_struct, second_struct) ==
    IF first_struct # second_struct
    THEN Rec([fl EXCEPT !.ok = FALSE], Tern(condition, first, second), <<>>)
    ELSE StructMembersDone(
            MemberLoop(fl, condition, first, second, first_struct.members, <<>>, <<>>),
            first_struct.identifier)

\* reconstruct_ternary, one element of the tuples: the intermediate assignment
TupleAssigned(u, stmts) ==
    [fl |-> u.fl, stmts |-> Append(stmts, u.statement), element |-> Id(u.identifier)]

\* reconstruct_ternary, one element, once its ternary expression is reconstructed
TupleTernary(r, stmts) ==
    TupleAssigned(UniqueSimpleAssignStatement(r.fl, r.e), stmts \o r.stmts)

\* reconstruct_ternary, one element, once the false case is reconstructed
TupleFalse(if_true, if_false, condition, stmts) ==
    TupleTernary(ReconstructTernary(if_false.fl, condition, if_true.e, if_false.e),
                 stmts \o if_true.stmts \o if_false.stmts)

\* reconstruct_ternary, one element, once the true case is reconstructed
TupleTrue(if_true, condition, f, stmts) ==
    TupleFalse(if_true, ReconstructExpression(if_true.fl, f), condition, stmts)

\* reconstruct_ternary, the map over the zipped elements: the next element
TupleNext(m, condition, first, second, elements) ==
    TupleLoop(m.fl, condition, first, second, m.stmts, Append(elements, m.element))

\* reconstruct_ternary, the map over the zipped elements of two tuples (zip_eq
\* panics when one tuple ends before the other)
TupleLoop(fl, condition, first, second, stmts, elements) ==
    IF ~fl.ok \/ (first = <<>> /\ second = <<>>)
    THEN Rec(fl, TupleExpr(elements), stmts)
    ELSE IF first = <<>> \/ second = <<>>
    THEN Rec([fl EXCEPT !.ok = FALSE], TupleExpr(elements), stmts)
    ELSE TupleNext(TupleTrue(ReconstructExpression(fl, Head(first)), condition,
                             Head(second), stmts),
                   condition, Tail(first), Tail(second), elements)

\* reconstruct_ternary, the arm of two member accesses
AccessTernary(fl, condition, first, second, first_symbol, second_symbol) ==
    IF first_symbol # NoStruct /\ second_symbol # NoStruct
    THEN StructTernary(fl, condition, first, second,
                       LookupStruct(first_symbol), LookupStruct(second_symbol))
    ELSE GenericTernary(fl, condition, first, second)

\* Flattener::reconstruct_ternary
ReconstructTernary(fl, condition, t, f) ==
    IF ~fl.ok THEN Rec(fl, Tern(condition, t, f), <<>>)
    ELSE CASE Kind(t) = "Tuple" /\ Kind(f) = "Tuple" ->
                TupleLoop(fl, condition, t[2], f[2], <<>>, <<>>)
           [] Kind(t) = "Access" /\ Kind(f) = "Access" ->
                AccessTernary(fl, condition, t, f,
                              LookupStructSymbol(fl, t), LookupStructSymbol(fl, f))
           [] Kind(t) = "Id" /\ Kind(f) = "Id"
                /\ t[2] \in DOMAIN fl.structs /\ f[2] \in DOMAIN fl.structs ->
                StructTernary(fl, condition, t, f,
                              LookupStruct(fl.structs[t[2]]), LookupStruct(fl.structs[f[2]]))
           [] OTHER -> GenericTernary(fl, condition, t, f)

\* ExpressionReconstructor::reconstruct_expression: a ternary expression goes to
\* reconstruct_ternary, the other expressions of an arm are returned as they are
ReconstructExpression(fl, e) ==
    IF Kind(e) = "Tern" THEN ReconstructTernary(fl, e[2], e[3], e[4])
    ELSE Rec(fl, e, <<>>)

-----------------------------------------------------------------------------
(* The type checker (passes/src/type_checking): visit_function and          *)
(* visit_circuit. `tc` is the state of the checker: the errors the handler  *)
(* holds, the flags, the variables of the current scope and the history of  *)
(* the core calls. A span is the position of the item it lies in.           *)
(*   function : [kind, span, annotations, input, body, output]              *)
(*   input    : [identifier, type_, mode]                                   *)
(*   body     : [calls, returns], the core calls and whether it returns     *)
(*   circuit  : [kind, span, is_record, members], a member <<name, type>>   *)
(*   scope    : [variables, functions, parent], the names of its variables, *)
(*              the scope of every function it holds, and None or Some of   *)
(*              the scope it was entered from; a function is named by its   *)
(*              span                                                        *)

\* SymbolTable::default
DefaultTable == [variables |-> {}, functions |-> <<>>, parent |-> None]

\* the global scope the type checker is created with: a scope for every function
GlobalTable(program) ==
    [variables |-> {},
     functions |-> [k \in { i \in DOMAIN program : program[i].kind = "function" }
                      |-> DefaultTable],
     parent |-> None]

\* Handler::emit_err through TypeChecker::emit_err
EmitErr(tc, kind, what, span) ==
    [tc EXCEPT !.handler = Append(@, [kind |-> kind, what |-> what, span |-> span])]

\* TypeChecker::assert_not_tuple
AssertNotTuple(tc, span, what, type_) ==
    IF Kind(type_) = "Tuple" THEN EmitErr(tc, "TupleNotAllowed", what, span) ELSE tc

\* CoreInstruction::from_symbols: the fixed table of core operations
CoreTable == { <<"BHP256", "hash">>, <<"BHP256", "commit">>, <<"Pedersen64", "hash">> }

\* the history record of one call of check_core_circuit_call
LogCore(tc, before, circuit, function, result, span) ==
    [tc EXCEPT !.core = Append(@, [circuit |-> circuit, function |-> function,
                                   result |-> result, span |-> span,
                                   emitted |-> SubSeq(tc.handler, Len(before.handler) + 1,
                                                      Len(tc.handler))])]

\* TypeChecker::check_core_circuit_call; the result is None (<<>>) or Some
CheckCoreCircuitCall(tc, circuit, function, span) ==
    IF Kind(circuit) = "Identifier"
    THEN IF <<circuit[2], function>> \in CoreTable
         THEN LogCore(tc, tc, circuit, function, Some(<<circuit[2], function>>), span)
         ELSE LogCore(EmitErr(tc, "InvalidCoreInstruction", function, span),
                      tc, circuit, function, None, span)
    ELSE LogCore(tc, tc, circuit, function, None, span)

\* visit_function, the match on one annotation
VisitAnnotation(tc, annotation, span) ==
    CASE annotation = "program" -> [tc EXCEPT !.is_program_function = TRUE]
      [] annotation = "inline" -> [tc EXCEPT !.is_inlined = TRUE]
      [] OTHER -> EmitErr(tc, "UnknownAnnotation", annotation, span)

RECURSIVE VisitAnnotations(_, _, _)
\* visit_function, the loop over the annotations
VisitAnnotations(tc, annotations, span) ==
    IF annotations = <<>> THEN tc
    ELSE VisitAnnotations(VisitAnnotation(tc, Head(annotations), span),
                          Tail(annotations), span)

\* fault: the test of the two flags with `||`
EitherAnnotation(tc) == tc.is_program_function \/ tc.is_inlined

\* visit_function, the test of the two flags
BothAnnotations(tc) == tc.is_program_function /\ tc.is_inlined

\* visit_function, the error for a function that is both program and inline
CheckAnnotations(tc, span) ==
    IF BothAnnotations(tc) THEN EmitErr(tc, "ProgramAndInlineAnnotation", "function", span)
    ELSE tc

\* fault: visit_function without `self.has_return = false`
HasReturnKept(flag) == flag

\* visit_function, the value has_return has when the parameters are visited
HasReturnAtEntry(flag) == FALSE

\* visit_function, the scope of the function becomes the current scope: it is
\* swapped with the default table, and the scope it is taken from is its parent
EnterScope(tc, name) ==
    [tc EXCEPT !.symbol_table =
                  [tc.symbol_table.functions[name] EXCEPT
                      !.parent = Some([tc.symbol_table EXCEPT
                                          !.functions[name] = DefaultTable])],
               !.has_return = HasReturnAtEntry(@)]

\* visit_function, the parent becomes the current scope again, with the scope of
\* the function swapped back into it
LeaveScope(tc, name) ==
    [tc EXCEPT !.symbol_table =
                  [tc.symbol_table.parent[1] EXCEPT
                      !.functions[name] = [tc.symbol_table EXCEPT !.parent = None]]]

\* SymbolTable::insert_variable, with the error handed to the handler
InsertVariable(tc, input_var, span) ==
    IF input_var.identifier \in tc.symbol_table.variables
    THEN EmitErr(tc, "ShadowedVariable", input_var.identifier, span)
    ELSE [tc EXCEPT !.symbol_table.variables = @ \cup {input_var.identifier}]

\* visit_function, the check of the mode of one parameter
CheckMode(tc, input_var, span) ==
    IF ~tc.is_program_function /\ input_var.mode # "None"
    THEN EmitErr(tc, "HelperHasInputMode", input_var.identifier, span)
    ELSE tc

\* visit_function, one parameter
VisitInput(tc, input_var, span) ==
    InsertVariable(
        CheckMode(AssertNotTuple(tc, span, input_var.identifier, input_var.type_),
                  input_var, span),
        input_var, span)

RECURSIVE VisitInputs(_, _, _)
\* visit_function, the loop over the parameters
VisitInputs(tc, input, span) ==
    IF input = <<>> THEN tc
    ELSE VisitInputs(VisitInput(tc, Head(input), span), Tail(input), span)

RECURSIVE VisitCalls(_, _, _)
\* the core calls of a body, in order
VisitCalls(tc, calls, span) ==
    IF calls = <<>> THEN tc
    ELSE VisitCalls(CheckCoreCircuitCall(tc, Head(calls)[1], Head(calls)[2], span),
                    Tail(calls), span)

\* visit_block: the statements of the body are visited, a return statement sets
\* has_return
VisitBlock(tc, body, span) ==
    [VisitCalls(tc, body.calls, span) EXCEPT !.has_return = @ \/ body.returns]

\* visit_function, the check that the function returns
CheckReturn(tc, span) ==
    IF ~tc.has_return THEN EmitErr(tc, "FunctionHasNoReturn", "function", span) ELSE tc

RECURSIVE AssertNoTuples(_, _, _)
\* visit_function, the loop over the elements of a tuple return type
AssertNoTuples(tc, tys, span) ==
    IF tys = <<>> THEN tc
    ELSE AssertNoTuples(AssertNotTuple(tc, span, "output", Head(tys)), Tail(tys), span)

\* visit_function, the check of the return type
CheckOutput(tc, output, span) ==
    IF Kind(output) = "Tuple" THEN AssertNoTuples(tc, output[2], span) ELSE tc

\* fault: visit_function without the reset of a flag
KeepFlag(flag) == flag

\* visit_function, the value a flag is left with
UnsetFlag(flag) == FALSE

\* visit_function, the flags associated with annotations are unset
UnsetFlags(tc) ==
    [tc EXCEPT !.is_program_function = UnsetFlag(@), !.is_inlined = UnsetFlag(@)]

\* TypeChecker::visit_function
TcVisitFunction(tc, input) ==
    UnsetFlags(
        LeaveScope(
            CheckOutput(
                CheckReturn(
                    VisitBlock(
                        VisitInputs(
                            EnterScope(
                                CheckAnnotations(
                                    VisitAnnotations(tc, input.annotations, input.span),
                                    input.span),
                                input.span),
                            input.input, input.span),
                        input.body, input.span),
                    input.span),
                input.output, input.span),
            input.span))

\* visit_circuit, whether two members have one name
HasDuplicate(members) ==
    \E i, j \in DOMAIN members : i < j /\ members[i][1] = members[j][1]

\* visit_circuit, the check for conflicting member names
CheckDuplicates(tc, input) ==
    IF HasDuplicate(input.members)
    THEN EmitErr(tc, IF input.is_record THEN "DuplicateRecordVariable"
                     ELSE "DuplicateCircuitMember", "circuit", input.span)
    ELSE tc

\* find_map: the first member of the name, 0 when there is none
FindMember(members, need) ==
    IF \E i \in DOMAIN members : members[i][1] = need
    THEN CHOOSE i \in DOMAIN members :
            /\ members[i][1] = need
            /\ \A j \in 1..(i - 1) : members[j][1] # need
    ELSE 0

\* fault: check_has_field without the test of the type
CheckHasFieldAnyType(tc, input, need, expected_ty) ==
    IF FindMember(input.members, need) = 0
    THEN EmitErr(tc, "RequiredRecordVariable", need, input.span)
    ELSE tc

\* visit_circuit, the closure check_has_field
CheckHasField(tc, input, need, expected_ty) ==
    IF FindMember(input.members, need) = 0
    THEN EmitErr(tc, "RequiredRecordVariable", need, input.span)
    ELSE IF input.members[FindMember(input.members, need)][2] = expected_ty
    THEN tc
    ELSE EmitErr(tc, "RecordVariableWrongType", need, input.span)

\* visit_circuit, the presence of `owner: Address` and `gates: u64` in a record
CheckRecord(tc, input) ==
    IF input.is_record
    THEN CheckHasField(CheckHasField(tc, input, "owner", Address), input, "gates", U64)
    ELSE tc

RECURSIVE CheckMembers(_, _, _)
\* visit_circuit, the loop that rejects tuple typed members
CheckMembers(tc, members, span) ==
    IF members = <<>> THEN tc
    ELSE CheckMembers(AssertNotTuple(tc, span, Head(members)[1], Head(members)[2]),
                      Tail(members), span)

\* TypeChecker::visit_circuit
TcVisitCircuit(tc, input) ==
    CheckMembers(CheckRecord(CheckDuplicates(tc, input), input), input.members, input.span)

-----------------------------------------------------------------------------
(* The programs the passes are run on: type-checked programs of one or two *)
(* functions. Function f(a, c) opens with `let x = a; let y = x;`, goes on *)
(* with up to MaxStmts statements of a pool or with an else-if chain of up *)
(* to MaxChain links, and closes with a return.                            *)

a == <<"a">>
c == <<"c">>
x == <<"x">>
y == <<"y">>
t == <<"t">>

XisA == Assign("Assign", x, Id(a))
XisZero == Assign("Assign", x, Lit(0))
XplusA == Assign("Add", x, Id(a))
YisX == Assign("Assign", y, Id(x))
IfCXisA == Cond(Id(c), <<XisA>>, None)

\* statements without a conditional
SimplePool ==
    { Assign("Assign", x, Bin("+", Id(x), Id(a))),
      XplusA,
      Assign("Mul", y, Id(y)),
      Console(Id(y)),
      Block(<<Def(t, Id(a)), Assign("Assign", x, Id(t))>>) }

\* one-armed conditionals whose condition is a literal and a binary expression
ConditionPool == { Cond(cnd, <<XisA>>, None) : cnd \in { Lit(1), Bin("<", Id(a), Id(x)) } }

ThenArms == { <<XisA, XplusA>>, <<YisX>>, <<Def(t, Id(a))>>, <<IfCXisA>> }

ElseArms == { <<XisZero>>, <<XisA, YisX>>, <<Def(t, Lit(0))>>,
              <<Cond(Id(c), <<Assign("Assign", y, Id(a))>>, None)>> }

\* conditionals without else and with an else block, and a conditional whose
\* then-block holds a conditional that defines a variable on one side only
ArmPool ==
    { Cond(Id(c), th, nx) : th \in ThenArms,
                            nx \in {None} \cup { Some(Block(el)) : el \in ElseArms } }
    \cup { Cond(Id(c), <<>>, Some(Block(<<XisZero>>))),
           Cond(Id(c), <<Cond(Id(c), <<Def(t, Id(a))>>, None)>>, None) }

RECURSIVE Tails(_)
\* what may follow `else`: nothing, or a chain of at most k else-if links, the
\* last of them with or without an else block
Tails(k) ==
    IF k = 0 THEN {None}
    ELSE Tails(k - 1) \cup
         { Some(Cond(cnd, <<XisZero>>, nx)) :
              cnd \in { Id(c), Bin("<", Id(a), Id(x)) },
              nx \in Tails(k - 1) \cup { Some(Block(<<XisA>>)) } }

\* else-if chains
ChainPool == { Cond(Id(c), <<XisA>>, nx) : nx \in Tails(MaxChain) \ {None} }

SmallPool == SimplePool \cup ConditionPool

RECURSIVE Mids(_)
\* the sequences of at most k statements of SmallPool and ArmPool with at most one
\* statement of ArmPool
Mids(k) ==
    IF k = 0 THEN {<<>>}
    ELSE Mids(k - 1) \cup
         UNION { { Append(m, s) :
                     s \in { s \in SmallPool \cup ArmPool :
                               s \in ArmPool => \A i \in DOMAIN m : m[i] \notin ArmPool } } :
                 m \in { m \in Mids(k - 1) : Len(m) = k - 1 } }

Body(mid, r) == <<Def(x, Id(a)), Def(y, Id(x))>> \o mid \o <<Return(Id(r))>>

F(mid, r) == << <<"f">>, <<a, c>>, Body(mid, r) >>

\* the second function of a two-function program
Helpers ==
    { << <<"g">>, <<a>>, <<Def(x, Id(a)), XplusA, Return(Id(x))>> >>,
      << <<"g">>, <<a>>, <<Def(x, Id(a)), Cond(Id(a), <<XisZero>>, None), Return(Id(a))>> >> }

\* one function around a sequence of pool statements or around an else-if chain,
\* and two functions, the first around at most one pool statement
Programs ==
    { <<F(mid, r)>> : mid \in Mids(MaxStmts) \cup { <<ch>> : ch \in ChainPool },
                      r \in {x, a} }
    \cup { <<F(mid, r), g>> : mid \in Mids(1), r \in {x, a}, g \in Helpers }

-----------------------------------------------------------------------------
(* The ternary expressions the Flattener is run on: the arms of a           *)
(* type-checked ternary expression of a function                            *)
(*   f(c: bool, p: Pt, q: Pt, o: Outer, r: Outer, u: u8, w: u8).           *)

\* number of ternary expressions the Flattener lowers in one run
MaxTernaries == 2

Pp == <<"p">>
Pq == <<"q">>
Po == <<"o">>
Pr == <<"r">>
Pu == <<"u">>
Pw == <<"w">>
Inner == <<"inner">>
Kk == <<"k">>

\* the types of the inputs of the function
InputTypes ==
    (Pp :> Named("Pt")) @@ (Pq :> Named("Pt")) @@ (Po :> Named("Outer"))
    @@ (Pr :> Named("Outer")) @@ (Pu :> U8) @@ (Pw :> U8) @@ (c :> Boolean)

\* Flattener.structs when the body of the function is entered: the inputs that
\* hold an aggregate
InputStructs ==
    (Pp :> "Pt") @@ (Pq :> "Pt") @@ (Po :> "Outer") @@ (Pr :> "Outer")

RECURSIVE TypeOf(_, _)
\* the type the type checker gives an expression, the identifiers typed by env
TypeOf(env, e) ==
    CASE Kind(e) = "Id" -> env[e[2]]
      [] Kind(e) = "Lit" -> U8
      [] Kind(e) = "Bin" -> TypeOf(env, e[3])
      [] Kind(e) = "Tern" -> TypeOf(env, e[3])
      [] Kind(e) = "Access" -> MemberType(LookupStruct(TypeOf(env, e[2])[2]), e[3])
      [] Kind(e) = "Tuple" -> TupleT([i \in DOMAIN e[2] |-> TypeOf(env, e[2][i])])
      [] Kind(e) = "Struct" -> Named(e[2])

RECURSIVE EnvAfter(_, _)
\* the types of the identifiers after a sequence of assignments
EnvAfter(env, stmts) ==
    IF stmts = <<>> THEN env
    ELSE EnvAfter((Head(stmts)[3] :> TypeOf(env, Head(stmts)[4])) @@ env, Tail(stmts))

RECURSIVE Emitted(_)
\* the assignments of a sequence of lowered ternary expressions, in order
Emitted(log) ==
    IF log = <<>> THEN <<>> ELSE Emitted(Front(log)) \o Last(log).statements

\* the types of the inputs and of the variables the Flattener has assigned
Env == EnvAfter(InputTypes, Emitted(lowered))

\* the expressions of the function that may be the arm of a ternary expression
BaseArms ==
    { Id(Pp), Id(Pq), Id(Po), Id(Pr), Id(Pu), Id(Pw),
      Access(Id(Po), Inner), Access(Id(Pr), Inner),
      Access(Id(Pp), x), Access(Id(Pq), y), Access(Id(Po), Kk),
      Access(Access(Id(Po), Inner), x),
      TupleExpr(<<Id(Pp), Id(Pu)>>), TupleExpr(<<Id(Pq), Id(Pw)>>),
      Tern(Id(c), Id(Pp), Id(Pq)), Tern(Id(c), Id(Pu), Id(Pw)) }

\* the arms of the next ternary expression: an expression of the function or the
\* result of a ternary expression lowered before
Arms == BaseArms \cup { lowered[i].result : i \in DOMAIN lowered }

-----------------------------------------------------------------------------
(* The programs the type checker is run on: one function, one aggregate,    *)
(* or two items of a smaller pool.                                         *)

\* number of annotations of a function
MaxAnnotations == 2
\* number of members of an aggregate
MaxMembers == 3

RECURSIVE SeqsUpTo(_, _)
\* the sequences of at most k elements of a set
SeqsUpTo(S, k) ==
    IF k = 0 THEN {<<>>}
    ELSE SeqsUpTo(S, k - 1) \cup
         { Append(q, e) : q \in { q \in SeqsUpTo(S, k - 1) : Len(q) = k - 1 }, e \in S }

AnnotationLists == SeqsUpTo({"program", "inline", "test"}, MaxAnnotations)

Param(identifier, type_, mode) == [identifier |-> identifier, type_ |-> type_, mode |-> mode]

PairT == TupleT(<<U8, U8>>)

\* no parameter; a parameter with a mode; a tuple typed parameter with a mode and
\* a second parameter of its name
ParamLists ==
    { <<>>,
      <<Param("a", U8, "Public")>>,
      <<Param("a", PairT, "Private"), Param("b", U8, "None"), Param("a", U8, "None")>> }

\* bodies with and without a return statement and core calls
Bodies ==
    { [calls |-> cs, returns |-> r] :
        cs \in { <<>>, << <<Named("BHP256"), "foo">>, <<U8, "hash">> >> },
        r \in BOOLEAN }

\* bodies of one core call
CoreBodies ==
    { [calls |-> << <<circuit, function>> >>, returns |-> TRUE] :
        circuit \in { Named("BHP256"), Named("Pedersen64"), Named("Pt"), U8 },
        function \in { "hash", "commit", "foo" } }

\* a return type without a tuple, and a tuple return type with a tuple element
Outputs == { U8, TupleT(<<PairT, U8, PairT>>) }

Function(annotations, input, body, output) ==
    [kind |-> "function", annotations |-> annotations, input |-> input,
     body |-> body, output |-> output]

Functions ==
    { Function(an, ps, body, output) :
        an \in AnnotationLists, ps \in ParamLists, body \in Bodies, output \in Outputs }
    \cup { Function(<<"program">>, <<>>, body, U8) : body \in CoreBodies }

MemberPool ==
    { <<"owner", Address>>, <<"owner", U8>>, <<"gates", U64>>, <<"gates", U8>>,
      <<"extra", PairT>> }

Circuit(is_record, members) ==
    [kind |-> "circuit", is_record |-> is_record, members |-> members]

Circuits ==
    { Circuit(is_record, members) :
        is_record \in BOOLEAN, members \in SeqsUpTo(MemberPool, MaxMembers) }

\* the items of the programs of two items
SmallItems ==
    { Function(an, ps, [calls |-> <<>>, returns |-> r], U8) :
        an \in { <<>>, <<"program">>, <<"inline">>, <<"program", "inline">>, <<"test">> },
        ps \in { <<>>, <<Param("a", U8, "Public")>> },
        r \in BOOLEAN }
    \cup { Circuit(TRUE, members) :
             members \in { <<>>, << <<"owner", U8>>, <<"gates", U64>> >>,
                           << <<"owner", Address>>, <<"gates", U64>> >> } }

\* an item at its position in the program
At(item, span) == [ k \in DOMAIN item \cup {"span"} |-> IF k = "span" THEN span ELSE item[k] ]

CheckedPrograms ==
    { <<At(i, 1)>> : i \in Functions \cup Circuits }
    \cup { <<At(i, 1), At(j, 2)>> : i \in SmallItems, j \in SmallItems }

-----------------------------------------------------------------------------
(* The driver. A pass is started on the current program, reduces it one    *)
(* function at a time (reduce_program) and, after the last function, hands *)
(* over the new program. SSA and conditional flattening are applied in any *)
(* order and any number of times; dead code elimination consumes SSA       *)
(* output and ends the pipeline. A pass that panics aborts the compilation *)
(* and leaves the state of its reducer as it was at the panic.             *)

Current == asts[Len(asts)]

LastPass == IF done = <<>> THEN "none" ELSE done[Len(done)]

\* the state of the SSA reducer and the history of the pass, as one record
SsaState ==
    [counter |-> counter, table |-> rename_table, is_lhs |-> is_lhs,
     phi |-> phi_functions, ok |-> TRUE, panic |-> panic,
     ids |-> ids, alog |-> alog, clog |-> clog, flog |-> flog]

DceState == [marked |-> marked, is_critical |-> is_critical, ok |-> TRUE]

\* the pipeline before its first pass
PipelineFresh ==
    /\ done = <<>>
    /\ pc = "idle"
    /\ panic = "none"
    /\ fidx = 1
    /\ out = <<>>
    /\ counter = 0
    /\ rename_table = RootTable
    /\ is_lhs = FALSE
    /\ phi_functions = <<>>
    /\ marked = {}
    /\ is_critical = FALSE
    /\ ids = <<>>
    /\ alog = <<>>
    /\ clog = <<>>
    /\ flog = <<>>

\* the Flattener before its first ternary expression
LoweringFresh ==
    /\ structs = InputStructs
    /\ assigner = 0
    /\ lowered = <<>>

\* TypeChecker::new over an empty handler
CheckerFresh ==
    /\ visited = 0
    /\ handler = <<>>
    /\ is_program_function = FALSE
    /\ is_inlined = FALSE
    /\ has_return = FALSE
    /\ symbol_table = GlobalTable(items)
    /\ core = <<>>

Init ==
    /\ asts \in { <<p>> : p \in Programs }
    /\ PipelineFresh
    /\ LoweringFresh
    /\ items = <<>>
    /\ CheckerFresh

\* fault: a counter that starts again at zero in every function
CounterResetAtFunction(n) == 0

\* the value of the counter when a function is entered
CounterAtFunction(n) == n

\* static_single_assignment: do_pass creates the Director
StartSSA ==
    /\ pc = "idle"
    /\ Len(done) < MaxPasses
    /\ LastPass \in {"none", "ssa", "flatten"}
    /\ pc' = "ssa"
    /\ fidx' = 1
    /\ out' = <<>>
    /\ counter' = 0
    /\ rename_table' = RootTable
    /\ is_lhs' = FALSE
    /\ phi_functions' = <<>>
    /\ ids' = <<>>
    /\ alog' = <<>>
    /\ clog' = <<>>
    /\ flog' = <<>>
    /\ UNCHANGED <<asts, done, panic, marked, is_critical>>
    /\ UNCHANGED <<lowering_vars, checker_vars>>

\* static_single_assignment: reduce_program reduces the next function and, after
\* the last one, do_pass returns the new program
SSAFunction ==
    /\ pc = "ssa"
    /\ fidx <= Len(Current)
    /\ \E r \in { ReduceFunction([SsaState EXCEPT !.counter = CounterAtFunction(@)],
                                 Current[fidx]) } :
          /\ panic' = r.st.panic
          /\ counter' = r.st.counter
          /\ rename_table' = r.st.table
          /\ is_lhs' = r.st.is_lhs
          /\ phi_functions' = r.st.phi
          /\ ids' = r.st.ids
          /\ alog' = r.st.alog
          /\ clog' = r.st.clog
          /\ flog' = r.st.flog
          /\ IF ~r.st.ok
             THEN /\ pc' = "aborted"
                  /\ UNCHANGED <<asts, done, fidx, out>>
             ELSE IF fidx = Len(Current)
             THEN /\ asts' = Append(asts, Append(out, r.f))
                  /\ done' = Append(done, "ssa")
                  /\ pc' = "idle"
                  /\ fidx' = 1
                  /\ out' = <<>>
             ELSE /\ out' = Append(out, r.f)
                  /\ fidx' = fidx + 1
                  /\ UNCHANGED <<asts, done, pc>>
    /\ UNCHANGED <<marked, is_critical>>
    /\ UNCHANGED <<lowering_vars, checker_vars>>

\* flatten_conditionals: do_pass creates the Director
StartFlatten ==
    /\ pc = "idle"
    /\ Len(done) < MaxPasses
    /\ LastPass \in {"none", "ssa", "flatten"}
    /\ pc' = "flatten"
    /\ fidx' = 1
    /\ out' = <<>>
    /\ UNCHANGED <<asts, done, panic, counter, rename_table, is_lhs, phi_functions,
                   marked, is_critical, ids, alog, clog, flog>>
    /\ UNCHANGED <<lowering_vars, checker_vars>>

\* flatten_conditionals: reduce_program reduces the next function
FlattenFunction ==
    /\ pc = "flatten"
    /\ fidx <= Len(Current)
    /\ \E f \in { FlattenReduceFunction(Current[fidx]) } :
          IF fidx = Len(Current)
          THEN /\ asts' = Append(asts, Append(out, f))
               /\ done' = Append(done, "flatten")
               /\ pc' = "idle"
               /\ fidx' = 1
               /\ out' = <<>>
          ELSE /\ out' = Append(out, f)
               /\ fidx' = fidx + 1
               /\ UNCHANGED <<asts, done, pc>>
    /\ UNCHANGED <<panic, counter, rename_table, is_lhs, phi_functions,
                   marked, is_critical, ids, alog, clog, flog>>
    /\ UNCHANGED <<lowering_vars, checker_vars>>

\* dead_code_elimination: do_pass creates the eliminator; the pass consumes the
\* output of the SSA pass
StartDCE ==
    /\ pc = "idle"
    /\ Len(done) < MaxPasses
    /\ \E i \in DOMAIN done : done[i] = "ssa"
    /\ pc' = "dce"
    /\ fidx' = 1
    /\ out' = <<>>
    /\ marked' = {}
    /\ is_critical' = FALSE
    /\ UNCHANGED <<asts, done, panic, counter, rename_table, is_lhs, phi_functions,
                   ids, alog, clog, flog>>
    /\ UNCHANGED <<lowering_vars, checker_vars>>

\* dead_code_elimination: reduce_program reduces the next function
DCEFunction ==
    /\ pc = "dce"
    /\ fidx <= Len(Current)
    /\ \E r \in { DceReduceFunction(DceState, Current[fidx]) } :
          /\ marked' = r.d.marked
          /\ is_critical' = r.d.is_critical
          /\ panic' = IF r.d.ok THEN panic ELSE "reduce_block"
          /\ IF ~r.d.ok
             THEN /\ pc' = "aborted"
                  /\ UNCHANGED <<asts, done, fidx, out>>
             ELSE IF fidx = Len(Current)
             THEN /\ asts' = Append(asts, Append(out, r.f))
                  /\ done' = Append(done, "dce")
                  /\ pc' = "idle"
                  /\ fidx' = 1
                  /\ out' = <<>>
             ELSE /\ out' = Append(out, r.f)
                  /\ fidx' = fidx + 1
                  /\ UNCHANGED <<asts, done, pc>>
    /\ UNCHANGED <<counter, rename_table, is_lhs, phi_functions, ids, alog, clog, flog>>
    /\ UNCHANGED <<lowering_vars, checker_vars>>

Next ==
    \/ StartSSA
    \/ SSAFunction
    \/ StartFlatten
    \/ FlattenFunction
    \/ StartDCE
    \/ DCEFunction

Spec == Init /\ [][Next]_vars

-----------------------------------------------------------------------------
(* The ternary lowering, run on the ternary expressions of one function.   *)

\* the state of the Flattener, as one record
FlattenerState == [structs |-> structs, counter |-> assigner, ok |-> TRUE]

InitLower ==
    /\ asts = << <<>> >>
    /\ PipelineFresh
    /\ LoweringFresh
    /\ items = <<>>
    /\ CheckerFresh

\* flattening: reconstruct_ternary on a type-checked ternary expression
LowerTernary ==
    /\ Len(lowered) < MaxTernaries
    /\ \E if_true \in Arms, if_false \in Arms :
          /\ TypeOf(Env, if_true) = TypeOf(Env, if_false)
          /\ \E r \in { ReconstructTernary(FlattenerState, Id(c), if_true, if_false) } :
                /\ r.fl.ok
                /\ structs' = r.fl.structs
                /\ assigner' = r.fl.counter
                /\ lowered' = Append(lowered,
                      [condition |-> Id(c), if_true |-> if_true, if_false |-> if_false,
                       before |-> structs, after |-> r.fl.structs,
                       result |-> r.e, statements |-> r.stmts])
    /\ UNCHANGED <<pipeline_vars, checker_vars>>

NextLower == LowerTernary

SpecLower == InitLower /\ [][NextLower]_vars

-----------------------------------------------------------------------------
(* The type checker, run on the items of one program in visit order.       *)

\* the state of the type checker, as one record
CheckerState ==
    [handler |-> handler, is_program_function |-> is_program_function,
     is_inlined |-> is_inlined, has_return |-> has_return, core |-> core,
     symbol_table |-> symbol_table]

InitCheck ==
    /\ asts = << <<>> >>
    /\ PipelineFresh
    /\ LoweringFresh
    /\ items \in CheckedPrograms
    /\ CheckerFresh

\* the state the visit of an item leaves
Visited(tc) ==
    /\ visited' = visited + 1
    /\ handler' = tc.handler
    /\ is_program_function' = tc.is_program_function
    /\ is_inlined' = tc.is_inlined
    /\ has_return' = tc.has_return
    /\ symbol_table' = tc.symbol_table
    /\ core' = tc.core
    /\ UNCHANGED <<items, pipeline_vars, lowering_vars>>

\* type_checking: visit_function on the next item
VisitFunction ==
    /\ visited < Len(items)
    /\ items[visited + 1].kind = "function"
    /\ \E tc \in { TcVisitFunction(CheckerState, items[visited + 1]) } : Visited(tc)

\* type_checking: visit_circuit on the next item
VisitCircuit ==
    /\ visited < Len(items)
    /\ items[visited + 1].kind = "circuit"
    /\ \E tc \in { TcVisitCircuit(CheckerState, items[visited + 1]) } : Visited(tc)

NextCheck ==
    \/ VisitFunction
    \/ VisitCircuit

SpecCheck == InitCheck /\ [][NextCheck]_vars

-----------------------------------------------------------------------------
(* The properties of the passes.                                           *)

\* the runs of a pass that completed: run k read asts[k] and produced asts[k + 1]
Runs(pass) == { k \in DOMAIN done : done[k] = pass }

\* an SSA pass has just returned: Current is its output and the history is its own
SsaDone == pc = "idle" /\ LastPass = "ssa"

\* the counter suffix of a generated name
Suffix(name) == name[Len(name)]

\* the keys of a frame, in insertion order
FrameKeys(frame) == [i \in DOMAIN frame |-> frame[i][1]]

\* C1: after the SSA pass no identifier is the place of more than one Assign of
\* the program - renamed source assignments, converted definitions, phi
\* assignments and cond$k assignments alike: every place is a generated name, and
\* its counter suffix is the suffix of no other place.
C1_PlacesUnique ==
    \A k \in Runs("ssa") :
        LET assigns == ProgAssigns(asts[k + 1])
        IN \A i, j \in DOMAIN assigns :
              /\ Len(assigns[i][3]) >= 2
              /\ Len(assigns[j][3]) >= 2
              /\ i # j => /\ assigns[i][3] # assigns[j][3]
                          /\ Suffix(assigns[i][3]) # Suffix(assigns[j][3])

\* an SSA output that holds a converted definition, a renamed source assignment,
\* a phi assignment and a cond$k assignment
C1_Witness ==
    /\ SsaDone
    /\ \E e \in Range(clog) : e.phis # <<>>
    /\ \E s \in ProgStmts(Current) : Kind(s) = "Assign" /\ s[3][1] = "cond"
    /\ \E i, j \in DOMAIN alog : alog[i].op = "Def" /\ alog[j].op = "Add"

\* C2: a compound assignment `x op= e` is converted to `x_new = x_old op e'`:
\* the place is the fresh name, the value is the binary operation of op whose
\* left operand is the name bound to x before the statement, never the fresh name.
C2_CompoundReadsOldName ==
    \A i \in DOMAIN alog :
        alog[i].op \notin {"Def", "Assign"} =>
            /\ alog[i].stmt[2] = "Assign"
            /\ alog[i].stmt[3] = alog[i].new
            /\ Kind(alog[i].stmt[4]) = "Bin"
            /\ alog[i].stmt[4][2] = BinaryOperationOf(alog[i].op)
            /\ alog[i].stmt[4][3] = Id(alog[i].old)
            /\ alog[i].stmt[4][3] # Id(alog[i].new)

\* the name a phi function reads for symbol s from an arm: the name the arm bound
\* last, or the name bound before the conditional when the arm does not write s
ArmName(frame, entry, symbol) ==
    IF FrameHas(frame, symbol) THEN FrameGet(frame, symbol) ELSE Lookup(entry, symbol)

\* the symbols written in either arm: those of the then arm in the order of their
\* first write, then those written in the else arm only
WriteSet(e) ==
    FrameKeys(e.if_frame)
        \o SelectSeq(FrameKeys(e.else_frame), LAMBDA k : ~FrameHas(e.if_frame, k))

\* C3: a converted conditional emits exactly one phi assignment
\* `s_new = c ? t_name : f_name` per symbol written in either arm, in the
\* insertion order of the union of the write sets; t_name and f_name are the last
\* names the arms bound to s, or the name bound before the conditional; s_new is a
\* fresh name of s, bound to s in the enclosing frame when the conditional is left;
\* and the output of a completed pass holds every phi assignment exactly once.
C3_PhiPerWrittenSymbol ==
    /\ \A n \in DOMAIN clog :
          LET e == clog[n]
              w == WriteSet(e)
          IN /\ Len(e.phis) = Len(w)
             /\ Len(e.exit) = Len(e.entry)
             /\ \A i \in DOMAIN w :
                   /\ e.phis[i][2] = "Assign"
                   /\ Len(e.phis[i][3]) = Len(w[i]) + 1
                   /\ Front(e.phis[i][3]) = w[i]
                   /\ e.phis[i][4] = Tern(e.condition,
                                          Id(ArmName(e.if_frame, e.entry, w[i])),
                                          Id(ArmName(e.else_frame, e.entry, w[i])))
                   /\ \A j \in DOMAIN w : i # j => e.phis[i][3] # e.phis[j][3]
                   /\ FrameHas(Last(e.exit), w[i])
                   /\ Lookup(e.exit, w[i]) = e.phis[i][3]
    /\ SsaDone =>
          \A n \in DOMAIN clog : \A i \in DOMAIN clog[n].phis :
              Cardinality({ j \in DOMAIN ProgAssigns(Current) :
                              ProgAssigns(Current)[j] = clog[n].phis[i] }) = 1

\* a completed pass converted a conditional whose arms both write x and whose else
\* arm alone writes y: two phi assignments, the one of y reading the name y had
\* before the conditional
C3_Witness ==
    /\ SsaDone
    /\ \E e \in Range(clog) :
          /\ Len(e.phis) = 2
          /\ FrameHas(e.if_frame, x) /\ FrameHas(e.else_frame, x)
          /\ ~FrameHas(e.if_frame, y) /\ FrameHas(e.else_frame, y)
          /\ e.phis[2][4][3] = Id(Lookup(e.entry, y))

\* C4: a condition that is neither an Identifier nor a Literal is assigned to
\* cond$k before the conditional and replaced by cond$k, so every Conditional of
\* the SSA output has an Identifier or a Literal as its condition.
C4_ConditionsAreNames ==
    \A k \in Runs("ssa") :
        \A s \in ProgStmts(asts[k + 1]) :
            Kind(s) = "Cond" => Kind(s[2]) \in {"Id", "Lit"}

\* a statement the SSA pass adds to a block: a phi assignment or a cond$k assignment
IsInserted(s) ==
    Kind(s) = "Assign" /\ (Kind(s[4]) = "Tern" \/ s[3][1] = "cond")

RECURSIVE ShapeIn(_)
\* the kinds of the statements of an input block, position by position, with every
\* Definition read as the Assign that has to replace it
ShapeIn(b) ==
    IF b = <<>> THEN <<>>
    ELSE LET s == Head(b)
             k == CASE Kind(s) = "Def" -> <<"Assign">>
                    [] Kind(s) = "Cond" -> <<"Cond", ShapeIn(s[3]), ShapeIn(s[4])>>
                    [] Kind(s) = "Block" -> <<"Block", ShapeIn(s[2])>>
                    [] OTHER -> <<Kind(s)>>
         IN <<k>> \o ShapeIn(Tail(b))

RECURSIVE ShapeOut(_)
\* the kinds of the statements of an output block, position by position, leaving
\* out the statements the pass added
ShapeOut(b) ==
    IF b = <<>> THEN <<>>
    ELSE LET s == Head(b)
             k == CASE Kind(s) = "Cond" -> <<"Cond", ShapeOut(s[3]), ShapeOut(s[4])>>
                    [] Kind(s) = "Block" -> <<"Block", ShapeOut(s[2])>>
                    [] OTHER -> <<Kind(s)>>
         IN (IF IsInserted(s) THEN <<>> ELSE <<k>>) \o ShapeOut(Tail(b))

\* C5: after the SSA pass no Definition remains in any block of any function, every
\* Assign has the plain operation Assign, and (for a program the pass sees for the
\* first time) every Definition was replaced by an Assign at its position.
C5_NoDefinitionNoCompound ==
    \A k \in Runs("ssa") :
        /\ \A s \in ProgStmts(asts[k + 1]) :
              /\ Kind(s) # "Def"
              /\ Kind(s) = "Assign" => s[2] = "Assign"
        /\ (\A i \in 1..(k - 1) : done[i] # "ssa") =>
              \A f \in DOMAIN asts[k] :
                  ShapeOut(asts[k + 1][f][3]) = ShapeIn(asts[k][f][3])

\* a completed pass read definitions in a function body, in a then-block and in the
\* Block statement after `else`, and a compound assignment
C5_Witness ==
    \E k \in Runs("ssa") :
        /\ Cond(Id(c), <<Def(t, Id(a))>>, Some(Block(<<Def(t, Lit(0))>>)))
              \in ProgStmts(asts[k])
        /\ \E s \in ProgStmts(asts[k]) : Kind(s) = "Assign" /\ s[2] # "Assign"

\* C6: within one run of the SSA pass get_unique_id never returns a value it has
\* returned before: the values it returns increase strictly and stay below the
\* counter, across functions, frames and arms; and the places of the output of a
\* completed pass carry exactly these values as suffixes, each of them once.
C6_CounterStrictlyIncreasing ==
    /\ \A i, j \in DOMAIN ids : i < j => ids[i] < ids[j]
    /\ \A i \in DOMAIN ids : ids[i] < counter
    /\ SsaDone =>
          /\ Len(ProgAssigns(Current)) = Len(ids)
          /\ { Suffix(ProgAssigns(Current)[i][3]) : i \in DOMAIN ProgAssigns(Current) }
                = Range(ids)

\* a completed pass over two functions, each with a conditional
C6_Witness ==
    /\ SsaDone
    /\ Len(Current) = 2
    /\ Len(clog) >= 2
    /\ \E i, j \in DOMAIN flog : flog[i].kind = "then" /\ flog[j].kind = "else"
    /\ Cardinality({ i \in DOMAIN flog : flog[i].kind = "function" }) = 2
    /\ Len(ids) >= 6

\* C7: rename frames are balanced on every exit path: whenever the pass is not
\* inside a function - after a function, after the pass, after the pass was
\* abandoned on an error - the current frame is the root frame, and every frame
\* that was pushed and popped left the frame that was current before the push.
C7_FramesBalanced ==
    /\ Len(rename_table) = 1
    /\ \A i \in DOMAIN flog : flog[i].after = flog[i].before

\* C8: one run of the flattening pass leaves no Conditional in any block.
C8_NoConditionalAfterFlatten ==
    \A k \in Runs("flatten") :
        \A s \in ProgStmts(asts[k + 1]) : Kind(s) # "Cond"

\* C9: flattening is idempotent: flattening the output of a flattening pass
\* returns that output.
C9_FlattenIdempotent ==
    \A k \in Runs("flatten") :
        (k + 1) \in Runs("flatten") => asts[k + 2] = asts[k + 1]

\* the identifiers a block reads in the expressions of its Return and Console statements
CriticalReads(b) ==
    UNION { ExprIds(s[2]) : s \in { r \in Range(FlatStmts(b)) :
                                      Kind(r) \in {"Return", "Console"} } }

RECURSIVE LiveFrom(_, _)
\* the least set that holds `live` and the identifiers read by the value of every
\* Assign of b whose place it holds
LiveFrom(b, live) ==
    LET more == live \cup UNION { ExprIds(s[4]) :
                       s \in { r \in Range(BlockAssigns(b)) : r[3] \in live } }
    IN IF more = live THEN live ELSE LiveFrom(b, more)

\* the live identifiers of a function body
Live(b) == LiveFrom(b, CriticalReads(b))

\* C10: after DCE every surviving Assign is live: its place is read by a Return or
\* Console statement of the output function, or by the value of a surviving Assign
\* that is live.
C10_SurvivorsLive ==
    \A k \in Runs("dce") :
        \A f \in DOMAIN asts[k + 1] :
            \A s \in Range(BlockAssigns(asts[k + 1][f][3])) :
                s[3] \in Live(asts[k + 1][f][3])

\* a completed DCE pass dropped an Assign and kept an Assign that is read only by
\* the value of another Assign
C10_Witness ==
    \E k \in Runs("dce") :
        /\ Len(BlockAssigns(asts[k + 1][1][3])) < Len(BlockAssigns(asts[k][1][3]))
        /\ \E s \in Range(BlockAssigns(asts[k + 1][1][3])) :
              s[3] \notin CriticalReads(asts[k + 1][1][3])

\* C11: one DCE pass removes every dead assignment, chains included: no Assign of
\* the output function has a place outside the live set of the input function -
\* the least set that holds the identifiers its Return and Console statements
\* read and the identifiers read by the value of every Assign whose place it
\* holds - so an Assign read only by removed assignments is removed with them.
C11_DeadChainsRemoved ==
    \A k \in Runs("dce") :
        \A f \in DOMAIN asts[k] :
            \A s \in Range(BlockAssigns(asts[k + 1][f][3])) :
                s[3] \in Live(asts[k][f][3])

\* a completed DCE pass read a function in which an Assign is read by the value of
\* another Assign and by nothing else, and left no Assign of that function
C11_Witness ==
    \E k \in Runs("dce") :
        /\ \E s1, s2 \in Range(BlockAssigns(asts[k][1][3])) :
              /\ s1 # s2
              /\ s1[3] \in ExprIds(s2[4])
              /\ s1[3] \notin CriticalReads(asts[k][1][3])
        /\ BlockAssigns(asts[k + 1][1][3]) = <<>>
        /\ \E s \in Range(asts[k + 1][1][3]) : Kind(s) = "Return"

RECURSIVE DropsOnlyAssigns(_, _)
\* whether block q is block b without some of its Assign statements, at any depth:
\* every other statement is kept at its place, and every kept Assign is unchanged
DropsOnlyAssigns(b, q) ==
    IF b = <<>> THEN q = <<>>
    ELSE CASE Kind(Head(b)) = "Assign" ->
                \/ q # <<>> /\ Head(q) = Head(b) /\ DropsOnlyAssigns(Tail(b), Tail(q))
                \/ DropsOnlyAssigns(Tail(b), q)
           [] Kind(Head(b)) = "Block" ->
                /\ q # <<>>
                /\ Kind(Head(q)) = "Block"
                /\ DropsOnlyAssigns(Head(b)[2], Head(q)[2])
                /\ DropsOnlyAssigns(Tail(b), Tail(q))
           [] OTHER ->
                /\ q # <<>>
                /\ Head(q) = Head(b)
                /\ DropsOnlyAssigns(Tail(b), Tail(q))

\* the Return and Console statements of a block, at any depth, in source order
Effects(b) == SelectSeq(FlatStmts(b), LAMBDA s : Kind(s) \in {"Return", "Console"})

\* C12: DCE removes and alters no Return and no Console statement, and every
\* output block is the input block without the dropped Assign statements: the
\* kept statements are in the order of the input, place and value unchanged.
C12_OnlyAssignsDropped ==
    \A k \in Runs("dce") :
        /\ Len(asts[k + 1]) = Len(asts[k])
        /\ \A f \in DOMAIN asts[k] :
              /\ Effects(asts[k + 1][f][3]) = Effects(asts[k][f][3])
              /\ DropsOnlyAssigns(asts[k][f][3], asts[k + 1][f][3])

\* a completed DCE pass read a function with a Console statement, kept two Assign
\* statements of it and dropped another
C12_Witness ==
    \E k \in Runs("dce") :
        /\ \E s \in Range(asts[k][1][3]) : Kind(s) = "Console"
        /\ Len(BlockAssigns(asts[k + 1][1][3])) >= 2
        /\ Len(BlockAssigns(asts[k + 1][1][3])) < Len(BlockAssigns(asts[k][1][3]))

\* C13: DCE is idempotent: a DCE pass over the output of a DCE pass returns that
\* output.
C13_DceIdempotent ==
    \A k \in Runs("dce") :
        (k + 1) \in Runs("dce") => asts[k + 2] = asts[k + 1]

\* two DCE passes in a row completed; the first dropped an Assign and kept another
C13_Witness ==
    \E k \in Runs("dce") :
        /\ (k + 1) \in Runs("dce")
        /\ BlockAssigns(asts[k + 1][1][3]) # <<>>
        /\ Len(BlockAssigns(asts[k + 1][1][3])) < Len(BlockAssigns(asts[k][1][3]))

\* C14: SSA is idempotent on SSA input: an SSA pass over the output of an SSA pass
\* returns that output - no identifier is renamed again, no statement is added.
C14_SsaIdempotent ==
    \A k \in Runs("ssa") :
        (k + 1) \in Runs("ssa") => asts[k + 2] = asts[k + 1]


RECURSIVE Ternaries(_)
\* the ternary expressions in an expression, at any depth
Ternaries(e) ==
    CASE Kind(e) = "Tern" ->
            {e} \cup Ternaries(e[2]) \cup Ternaries(e[3]) \cup Ternaries(e[4])
      [] Kind(e) = "Bin" -> Ternaries(e[3]) \cup Ternaries(e[4])
      [] Kind(e) = "Access" -> Ternaries(e[2])
      [] Kind(e) = "Tuple" -> UNION { Ternaries(e[2][i]) : i \in DOMAIN e[2] }
      [] Kind(e) = "Struct" -> UNION { Ternaries(e[3][i][2]) : i \in DOMAIN e[3] }
      [] OTHER -> {}

\* whether a type is the type of an aggregate or of a tuple
IsComposite(type) == Kind(type) \in {"Identifier", "Tuple"}

\* the ternary expressions a lowered ternary expression leaves in the program
Remaining(l) ==
    Ternaries(l.result) \cup UNION { Ternaries(s[4]) : s \in Range(l.statements) }

\* whether a ternary expression is one over an aggregate whose arms are
\* identifiers or member accesses
OverAggregate(l) ==
    /\ Kind(l.if_true) \in {"Id", "Access"}
    /\ Kind(l.if_false) \in {"Id", "Access"}
    /\ Kind(TypeOf(Env, l.if_true)) = "Identifier"

\* C15: after the lowering of a type-checked ternary expression over an aggregate
\* - both arms identifiers, both arms member accesses, or one of each - no
\* Ternary expression has an arm of an aggregate type or of a tuple type.
C15_NoAggregateTernary ==
    \A i \in DOMAIN lowered :
        OverAggregate(lowered[i]) =>
            \A tn \in Remaining(lowered[i]) :
                /\ ~IsComposite(TypeOf(Env, tn[3]))
                /\ ~IsComposite(TypeOf(Env, tn[4]))

\* whether every member of an aggregate has a primitive type
PrimitiveMembers(struct) ==
    \A i \in DOMAIN struct.members : ~IsComposite(struct.members[i][2])

\* C16: lowering `c ? a : b`, a and b identifiers bound to the same aggregate A
\* with primitive members m_1..m_n, emits one assignment `v_i = c ? a.m_i : b.m_i`
\* per member, in declaration order, then one assignment
\* `r = A { m_1: v_1, ..., m_n: v_n }`, records r as an A in structs, and yields r.
C16_OneAssignPerMember ==
    \A i \in DOMAIN lowered :
        LET l == lowered[i]
            A == LookupStruct(l.before[l.if_true[2]])
            n == Len(A.members)
        IN (/\ Kind(l.if_true) = "Id" /\ Kind(l.if_false) = "Id"
            /\ l.if_true[2] \in DOMAIN l.before /\ l.if_false[2] \in DOMAIN l.before
            /\ l.before[l.if_true[2]] = l.before[l.if_false[2]]
            /\ PrimitiveMembers(A))
           => /\ Len(l.statements) = n + 1
              /\ \A k \in 1..n :
                    l.statements[k] =
                        Assign("Assign", l.statements[k][3],
                               Tern(l.condition, Access(l.if_true, A.members[k][1]),
                                    Access(l.if_false, A.members[k][1])))
              /\ l.statements[n + 1] =
                    Assign("Assign", l.statements[n + 1][3],
                           StructInit(A.identifier,
                                      [k \in 1..n |-> <<A.members[k][1],
                                                        Id(l.statements[k][3])>>]))
              /\ l.result = Id(l.statements[n + 1][3])
              /\ l.statements[n + 1][3] \in DOMAIN l.after
              /\ l.after[l.statements[n + 1][3]] = A.identifier


\* the errors of a kind the handler holds for an item, in the order of their emission
ErrorsAt(kind, span) ==
    SelectSeq(handler, LAMBDA e : e.kind = kind /\ e.span = span)

\* what the errors of a kind the handler holds for an item are about
WhatAt(kind, span) ==
    [k \in DOMAIN ErrorsAt(kind, span) |-> ErrorsAt(kind, span)[k].what]

\* the functions and the aggregates visited so far
VisitedFunctions == { i \in 1..visited : items[i].kind = "function" }
VisitedCircuits == { i \in 1..visited : items[i].kind = "circuit" }

\* C17: visit_function emits ProgramAndInlineAnnotation once for a function that
\* carries both the `program` and the `inline` annotation and not at all for any
\* other function, emits UnknownAnnotation once for each annotation that is
\* neither, in order, and in every case goes on to the parameters and the body:
\* tuple typed parameters are reported, the core calls of the body are checked,
\* and a missing return is reported.
C17_AnnotationErrors ==
    \A i \in VisitedFunctions :
        LET f == items[i]
        IN /\ Len(ErrorsAt("ProgramAndInlineAnnotation", i)) =
                 (IF {"program", "inline"} \subseteq Range(f.annotations) THEN 1 ELSE 0)
           /\ WhatAt("UnknownAnnotation", i) =
                 SelectSeq(f.annotations, LAMBDA an : an \notin {"program", "inline"})
           /\ \A k \in DOMAIN f.input :
                 Kind(f.input[k].type_) = "Tuple" =>
                     f.input[k].identifier \in Range(WhatAt("TupleNotAllowed", i))
           /\ Len(SelectSeq(core, LAMBDA e : e.span = i)) = Len(f.body.calls)
           /\ Len(ErrorsAt("FunctionHasNoReturn", i)) = (IF f.body.returns THEN 0 ELSE 1)

\* the checker visited a function with both annotations and then a function with
\* an unknown annotation, none of them with a return
C17_Witness ==
    /\ visited = 2
    /\ VisitedFunctions = {1, 2}
    /\ items[1].annotations = <<"program", "inline">>
    /\ items[2].annotations = <<"test">>
    /\ ~items[1].body.returns /\ ~items[2].body.returns
    /\ Len(handler) >= 4

\* whether an aggregate has a member of a name, and whether the first member of
\* that name has a type
HasMember(members, need) == \E i \in DOMAIN members : members[i][1] = need
FirstHasType(members, need, type) ==
    \E i \in DOMAIN members :
        /\ members[i] = <<need, type>>
        /\ \A j \in 1..(i - 1) : members[j][1] # need

\* the members a record must have
RequiredMembers == { <<"owner", Address>>, <<"gates", U64>> }

\* the errors of a kind the handler holds for an item about a member
MemberErrors(kind, span, need) ==
    Len(SelectSeq(ErrorsAt(kind, span), LAMBDA e : e.what = need))

\* C18 (as stated): for a record, RequiredRecordVariable for each of `owner` and
\* `gates` that is absent, RecordVariableWrongType for each that is present with
\* another type than Address and U64, and neither error when both are present with
\* these types, whatever the other members; for another aggregate neither error.
C18_RecordMembers ==
    \A i \in VisitedCircuits :
        LET r == items[i]
        IN IF r.is_record
           THEN /\ \A m \in RequiredMembers :
                      /\ ~HasMember(r.members, m[1]) =>
                            MemberErrors("RequiredRecordVariable", i, m[1]) = 1
                      /\ (\E k \in DOMAIN r.members :
                              r.members[k][1] = m[1] /\ r.members[k][2] # m[2]) =>
                            MemberErrors("RecordVariableWrongType", i, m[1]) = 1
                /\ (\A m \in RequiredMembers : m \in Range(r.members)) =>
                      /\ ErrorsAt("RequiredRecordVariable", i) = <<>>
                      /\ ErrorsAt("RecordVariableWrongType", i) = <<>>
           ELSE /\ ErrorsAt("RequiredRecordVariable", i) = <<>>
                /\ ErrorsAt("RecordVariableWrongType", i) = <<>>

\* C18 (amended): for a record and each of `owner` and `gates`, the first member
\* of that name decides: RequiredRecordVariable is emitted once when there is no
\* such member, RecordVariableWrongType once when the first such member has
\* another type than Address (owner) and U64 (gates), and neither error when it
\* has that type, whatever the other members; for another aggregate neither
\* error is emitted.
C18_FirstMemberDecides ==
    \A i \in VisitedCircuits :
        LET r == items[i]
        IN \A m \in RequiredMembers :
              /\ MemberErrors("RequiredRecordVariable", i, m[1]) =
                    (IF r.is_record /\ ~HasMember(r.members, m[1]) THEN 1 ELSE 0)
              /\ MemberErrors("RecordVariableWrongType", i, m[1]) =
                    (IF r.is_record /\ HasMember(r.members, m[1])
                        /\ ~FirstHasType(r.members, m[1], m[2]) THEN 1 ELSE 0)

\* the checker visited a record with a member `owner` of type u8, an additional
\* member and no member `gates`
C18_Witness ==
    \E i \in VisitedCircuits :
        /\ items[i].is_record
        /\ items[i].members = << <<"owner", U8>>, <<"extra", PairT>> >>
        /\ MemberErrors("RecordVariableWrongType", i, "owner") = 1
        /\ MemberErrors("RequiredRecordVariable", i, "gates") = 1

RECURSIVE Concat(_)
\* the concatenation of a sequence of sequences
Concat(seqs) == IF seqs = <<>> THEN <<>> ELSE Head(seqs) \o Concat(Tail(seqs))

Err(kind, what, span) == [kind |-> kind, what |-> what, span |-> span]

\* the error of a kind if a condition holds
ErrIf(cond, kind, what, span) == IF cond THEN <<Err(kind, what, span)>> ELSE <<>>

\* the violations of one parameter of a function
ParamViolations(f, k) ==
    ErrIf(Kind(f.input[k].type_) = "Tuple", "TupleNotAllowed", f.input[k].identifier, f.span)
    \o ErrIf("program" \notin Range(f.annotations) /\ f.input[k].mode # "None",
             "HelperHasInputMode", f.input[k].identifier, f.span)
    \o ErrIf(\E j \in 1..(k - 1) : f.input[j].identifier = f.input[k].identifier,
             "ShadowedVariable", f.input[k].identifier, f.span)

\* the violations of a function, in visit order
FunctionViolations(f) ==
    Concat([k \in DOMAIN f.annotations |->
               ErrIf(f.annotations[k] \notin {"program", "inline"},
                     "UnknownAnnotation", f.annotations[k], f.span)])
    \o ErrIf({"program", "inline"} \subseteq Range(f.annotations),
             "ProgramAndInlineAnnotation", "function", f.span)
    \o Concat([k \in DOMAIN f.input |-> ParamViolations(f, k)])
    \o ErrIf(~f.body.returns, "FunctionHasNoReturn", "function", f.span)
    \o (IF Kind(f.output) = "Tuple"
        THEN Concat([k \in DOMAIN f.output[2] |->
                        ErrIf(Kind(f.output[2][k]) = "Tuple", "TupleNotAllowed",
                              "output", f.span)])
        ELSE <<>>)

\* the violations of an aggregate, in visit order
CircuitViolations(r) ==
    ErrIf(\E i, j \in DOMAIN r.members : i # j /\ r.members[i][1] = r.members[j][1],
          IF r.is_record THEN "DuplicateRecordVariable" ELSE "DuplicateCircuitMember",
          "circuit", r.span)
    \o Concat([k \in 1..2 |->
                 LET m == IF k = 1 THEN <<"owner", Address>> ELSE <<"gates", U64>>
                 IN ErrIf(r.is_record /\ ~HasMember(r.members, m[1]),
                          "RequiredRecordVariable", m[1], r.span)
                    \o ErrIf(r.is_record /\ HasMember(r.members, m[1])
                                /\ ~FirstHasType(r.members, m[1], m[2]),
                             "RecordVariableWrongType", m[1], r.span)])
    \o Concat([k \in DOMAIN r.members |->
                 ErrIf(Kind(r.members[k][2]) = "Tuple", "TupleNotAllowed",
                       r.members[k][1], r.span)])

\* the violations of an item
Violations(item) ==
    IF item.kind = "function" THEN FunctionViolations(item) ELSE CircuitViolations(item)

\* C19: the type checker continues after an error: the handler holds every
\* violation of every visited function and aggregate - unknown annotation, both
\* annotations, moded parameter of a helper, tuple typed parameter or member,
\* duplicate parameter name, missing return, missing or wrongly typed record
\* member - in visit order, and the errors of an item suppress none of a later item.
C19_ErrorsContinue ==
    SelectSeq(handler, LAMBDA e : e.kind # "InvalidCoreInstruction")
        = Concat([i \in 1..visited |-> Violations(items[i])])

\* the checker visited a program function with two violations and then a helper
\* function with a moded parameter and no return
C19_Witness ==
    /\ visited = 2
    /\ VisitedFunctions = {1, 2}
    /\ "program" \in Range(items[1].annotations)
    /\ Len(Violations(items[1])) >= 2
    /\ ErrorsAt("HelperHasInputMode", 2) # <<>>
    /\ ErrorsAt("FunctionHasNoReturn", 2) # <<>>

\* C20: check_core_circuit_call returns a core operation exactly when the pair of
\* the aggregate name and the method name is in the core table, and whenever it
\* returns none it has emitted InvalidCoreInstruction, whatever the type of the
\* receiver.
C20_CoreCallOrError ==
    \A k \in DOMAIN core :
        /\ core[k].result # None <=>
              /\ Kind(core[k].circuit) = "Identifier"
              /\ <<core[k].circuit[2], core[k].function>> \in CoreTable
        /\ core[k].result = None =>
              \E e \in Range(core[k].emitted) : e.kind = "InvalidCoreInstruction"


-----------------------------------------------------------------------------
(* Further properties of the pipeline.                                     *)

RECURSIVE SplicedStatement(_)
RECURSIVE Spliced(_)

\* a statement with every block inside it spliced
SplicedStatement(s) ==
    CASE Kind(s) = "Cond" ->
            Cond(s[2], Spliced(s[3]),
                 IF s[4] = None THEN None ELSE Some(SplicedStatement(s[4][1])))
      [] Kind(s) = "Block" -> Block(Spliced(s[2]))
      [] OTHER -> s

\* a block with every Conditional of its statement list replaced, at its position,
\* by the statements of its then-block followed by the statement after `else`
Spliced(b) ==
    IF b = <<>> THEN <<>>
    ELSE (IF Kind(Head(b)) = "Cond"
          THEN Spliced(Head(b)[3])
                  \o (IF Head(b)[4] = None THEN <<>>
                      ELSE <<SplicedStatement(Head(b)[4][1])>>)
          ELSE <<SplicedStatement(Head(b))>>)
         \o Spliced(Tail(b))

\* the statements of a block that are neither a Conditional nor a Block, at any
\* depth, in source order
Leaves(b) == SelectSeq(FlatStmts(b), LAMBDA s : Kind(s) \notin {"Cond", "Block"})

\* C21: flattening a block replaces each Conditional of its statement list, at its
\* position, by the statements of its then-block in their order followed by the
\* statement after `else` when there is one, and copies every other statement; no
\* statement other than a Conditional is dropped, duplicated or reordered.
C21_ConditionalsSpliced ==
    \A k \in Runs("flatten") :
        /\ Len(asts[k + 1]) = Len(asts[k])
        /\ \A f \in DOMAIN asts[k] :
              /\ asts[k + 1][f][3] = Spliced(asts[k][f][3])
              /\ Leaves(asts[k + 1][f][3]) = Leaves(asts[k][f][3])

\* a flattening pass read a conditional with two statements in its then-block and
\* an else block, between other statements
C21_Witness ==
    \E k \in Runs("flatten") :
        \E i \in DOMAIN asts[k][1][3] :
            /\ i > 1 /\ i < Len(asts[k][1][3])
            /\ Kind(asts[k][1][3][i]) = "Cond"
            /\ Len(asts[k][1][3][i][3]) = 2
            /\ asts[k][1][3][i][4] # None
            /\ Len(asts[k + 1][1][3]) = Len(asts[k][1][3]) + 2

RECURSIVE BlocksOf(_)
\* the blocks of a block: the block itself, the then-blocks and the blocks of the
\* Block statements in it, at any depth
BlocksOf(b) ==
    {b} \cup UNION { CASE Kind(b[i]) = "Cond" ->
                            BlocksOf(b[i][3]) \cup
                            (IF b[i][4] = None THEN {} ELSE BlocksOf(b[i][4]) \ {b[i][4]})
                       [] Kind(b[i]) = "Block" -> BlocksOf(b[i][2])
                       [] OTHER -> {} : i \in DOMAIN b }

\* the blocks of the program an SSA pass has just returned
OutputBlocks == UNION { BlocksOf(Current[f][3]) : f \in DOMAIN Current }

\* the phi assignments the pass built for the conditional it reduced to s
OwnPhis(s) == (CHOOSE e \in Range(clog) : e.stmt = s).phis

RECURSIVE ChainPhis(_)
\* the phi assignments of an else-if chain: those of the conditional after `else`
\* first, and those of the conditional itself last
ChainPhis(s) ==
    (IF s[4] # None /\ Kind(s[4][1]) = "Cond" THEN ChainPhis(s[4][1]) ELSE <<>>)
        \o OwnPhis(s)

RECURSIVE ChainOf(_)
\* the conditionals of an else-if chain: the conditional and, when the statement
\* after `else` is a conditional, the chain of that conditional
ChainOf(s) ==
    {s} \cup (IF s[4] # None /\ Kind(s[4][1]) = "Cond" THEN ChainOf(s[4][1]) ELSE {})

\* the statements of block b after position i, at most n of them
Following(b, i, n) == SubSeq(b, i + 1, IF i + n > Len(b) THEN Len(b) ELSE i + n)

\* C22: in the output of the SSA pass the phi assignments of every conditional -
\* a conditional that is the statement after `else` of another conditional
\* included - directly follow that conditional in its block, before any later
\* statement, and phi_functions is empty once they are placed.
C22_PhisAfterConditional ==
    /\ pc # "aborted" => phi_functions = <<>>
    /\ SsaDone =>
          \A e \in Range(clog) :
              \E b \in OutputBlocks : \E i \in DOMAIN b :
                  /\ b[i] = e.stmt
                  /\ Following(b, i, Len(e.phis)) = e.phis

\* C22, for the conditionals of a block: the conditional is directly followed by
\* the phi assignments of the else-if chain it heads, those of the last link
\* first and its own last; phi_functions is empty after every function
C22_PhisAfterChain ==
    /\ pc # "aborted" => phi_functions = <<>>
    /\ SsaDone =>
          /\ \A e \in Range(clog) :
                \E b \in OutputBlocks : \E i \in DOMAIN b :
                    Kind(b[i]) = "Cond" /\ e.stmt \in ChainOf(b[i])
          /\ \A b \in OutputBlocks : \A i \in DOMAIN b :
                Kind(b[i]) = "Cond" =>
                    /\ \E e \in Range(clog) : e.stmt = b[i]
                    /\ Following(b, i, Len(ChainPhis(b[i]))) = ChainPhis(b[i])

\* a completed pass converted an else-if chain whose two conditionals both have
\* phi assignments
C22_Witness ==
    /\ SsaDone
    /\ \E b \in OutputBlocks : \E i \in DOMAIN b :
          /\ Kind(b[i]) = "Cond"
          /\ b[i][4] # None
          /\ Kind(b[i][4][1]) = "Cond"
          /\ OwnPhis(b[i][4][1]) # <<>>
          /\ OwnPhis(b[i]) # <<>>
          /\ i + Len(ChainPhis(b[i])) < Len(b)

\* the identifiers the statements of a block read, at any depth
BlockReads(b) ==
    UNION { CASE Kind(r) \in {"Return", "Console", "Cond"} -> ExprIds(r[2])
              [] Kind(r) = "Def" -> ExprIds(r[3])
              [] Kind(r) = "Assign" -> ExprIds(r[4])
              [] OTHER -> {} : r \in Range(FlatStmts(b)) }

\* the places of the Assign statements of a block, at any depth
BlockPlaces(b) == { r[3] : r \in Range(BlockAssigns(b)) }

\* the names a table resolves its symbols to
VisibleNames(table) ==
    { Lookup(table, k) : k \in UNION { Range(FrameKeys(table[i])) : i \in DOMAIN table } }

\* C23: a push followed by a pop leaves the rename table as it was before the
\* push, whatever was bound in between; so the statement after `else` of a
\* conditional reads no name created in the then-block - what it reads is a name
\* bound before the conditional or a name it has assigned itself - and a lookup
\* in a popped frame returns its own binding, else the binding of the nearest
\* ancestor.
C23_PushPopRestores ==
    /\ \A i \in DOMAIN flog : flog[i].after = flog[i].before
    /\ \A e \in Range(clog) :
          /\ BlockReads(e.stmt[4]) \cap BlockPlaces(e.stmt[3]) = {}
          /\ BlockReads(e.stmt[4]) \subseteq VisibleNames(e.entry) \cup BlockPlaces(e.stmt[4])
          /\ \A k \in Range(FrameKeys(e.if_frame)) :
                Lookup(Append(e.entry, e.if_frame), k) = FrameGet(e.if_frame, k)
          /\ \A k \in Range(FrameKeys(e.else_frame)) \ Range(FrameKeys(e.if_frame)) :
                Lookup(Append(e.entry, e.if_frame), k) = Lookup(e.entry, k)

\* the pass converted a conditional whose then-block assigns x and whose statement
\* after `else` reads x before it assigns it
C23_Witness ==
    \E e \in Range(clog) :
        /\ FrameHas(e.if_frame, x)
        /\ e.stmt[4] # None
        /\ Lookup(e.entry, x) \in BlockReads(e.stmt[4])
        /\ \E i \in DOMAIN flog : flog[i].kind = "else" /\ Len(flog[i].before) >= 2

\* the symbols the statements of a block define or assign, at any depth
BlockWrites(b) ==
    { r[2] : r \in { q \in Range(FlatStmts(b)) : Kind(q) = "Def" } }
        \cup BlockPlaces(b)

\* C24: the SSA pass enters every function with a frame that binds each input to
\* its own name and nothing else - the frame below it is the empty root frame -
\* and pops that frame when it leaves the function: a read of an input that the
\* function does not write keeps the name of the input, and what a function reads
\* after the pass is one of its inputs or the place of an Assign of its own body,
\* never a name bound while another function was converted.
C24_FunctionFrames ==
    /\ pc # "aborted" => rename_table = RootTable
    /\ \A i \in DOMAIN flog :
          flog[i].kind = "function" =>
              flog[i].before = RootTable /\ flog[i].after = RootTable
    /\ \A k \in Runs("ssa") : \A f \in DOMAIN asts[k] :
          /\ asts[k + 1][f][2] = asts[k][f][2]
          /\ BlockReads(asts[k + 1][f][3])
                \subseteq Range(asts[k][f][2]) \cup BlockPlaces(asts[k + 1][f][3])
          /\ \A n \in Range(asts[k][f][2]) \ BlockWrites(asts[k][f][3]) :
                /\ n \in BlockReads(asts[k][f][3]) => n \in BlockReads(asts[k + 1][f][3])
                /\ n \notin BlockPlaces(asts[k + 1][f][3])

\* a completed pass over two functions that both define x and read their input a
C24_Witness ==
    /\ SsaDone
    /\ Len(Current) = 2
    /\ \A f \in {1, 2} :
          /\ a \in BlockReads(Current[f][3])
          /\ \E n \in BlockPlaces(Current[f][3]) : n[1] = "x"
    /\ BlockPlaces(Current[1][3]) \cap BlockPlaces(Current[2][3]) = {}

\* C25: dead code elimination, applied to a program after the SSA pass and one
\* conditional-flattening pass, never meets a Definition or a Conditional in its
\* block walk: the pass does not abort, also for programs with else-if chains and
\* with conditionals inside the blocks of a conditional.
C25_DceNeverAborts ==
    [][(pc = "dce" /\ done = <<"ssa", "flatten">>) => pc' # "aborted"]_vars

\* the identifiers one statement reads in its own expression
StatementReads(r) ==
    CASE Kind(r) \in {"Return", "Console", "Cond"} -> ExprIds(r[2])
      [] Kind(r) = "Def" -> ExprIds(r[3])
      [] Kind(r) = "Assign" -> ExprIds(r[4])
      [] OTHER -> {}

\* whether every identifier a statement of the function reads is an input of the
\* function or the place of an Assign earlier in statement order
DefinedBeforeUse(f) ==
    LET q == FlatStmts(f[3])
    IN \A i \in DOMAIN q :
          StatementReads(q[i]) \subseteq
              Range(f[2]) \cup { q[j][3] : j \in { j \in 1..(i - 1) : Kind(q[j]) = "Assign" } }

\* C27: the output of the SSA pass is definition-before-use: every identifier read
\* by the value of an Assign, by a Return or Console statement or by a condition
\* is an input of the function or the place of an earlier Assign; no Assign reads
\* its own place, also for `x = x + a` and `y *= y`.
C27_DefinitionBeforeUse ==
    \A k \in Runs("ssa") : \A f \in DOMAIN asts[k + 1] : DefinedBeforeUse(asts[k + 1][f])

\* whether every identifier that a statement of block q reads and that block b
\* assigns is the place of an Assign of q earlier in statement order
StillAssigned(b, q) ==
    \A i \in DOMAIN FlatStmts(q) :
        \A n \in StatementReads(FlatStmts(q)[i]) \cap BlockPlaces(b) :
            \E j \in 1..(i - 1) :
                Kind(FlatStmts(q)[j]) = "Assign" /\ FlatStmts(q)[j][3] = n

\* C28: DCE is sound on definition-before-use input, nested Block statements
\* included: every identifier that a surviving Return, Console or Assign reads
\* and that the input function assigns is still assigned in the output, earlier
\* in statement order.
C28_DceSound ==
    \A k \in Runs("dce") : \A f \in DOMAIN asts[k] :
        DefinedBeforeUse(asts[k][f]) => StillAssigned(asts[k][f][3], asts[k + 1][f][3])

\* a DCE pass read a definition-before-use function with a Block statement, kept
\* the two Assign statements of the Block, of which the first is read by the second
\* only, and dropped an Assign of the function body
C28_Witness ==
    \E k \in Runs("dce") :
        /\ DefinedBeforeUse(asts[k][1])
        /\ \E i \in DOMAIN asts[k + 1][1][3] :
              /\ Kind(asts[k + 1][1][3][i]) = "Block"
              /\ Len(asts[k + 1][1][3][i][2]) = 2
              /\ asts[k + 1][1][3][i][2][1][3] \in ExprIds(asts[k + 1][1][3][i][2][2][4])
        /\ Len(BlockAssigns(asts[k + 1][1][3])) < Len(BlockAssigns(asts[k][1][3]))

\* C29: the SSA pass never panics while it builds the phi assignments of a
\* conditional: every symbol written in an arm has a binding in the frame of the
\* then-block and in the frame of the statement after `else`, or in an ancestor
\* of it, also when the symbol is defined in one arm only and has no binding
\* before the conditional.
C29_PhiLookupsSucceed == panic # "reduce_conditional"

\* The eliminator as `DeadCodeEliminator::default()` makes it.
DefaultEliminator == [marked |-> {}, is_critical |-> FALSE, ok |-> TRUE]

\* The function as DCE returns it when the program holds that function alone.
EliminatedAlone(f) == DceReduceFunction(DefaultEliminator, f).f

\* C30: the body DCE gives a function in a whole program is the body it gives
\* that function in a program that holds the function alone, although the marks
\* of the functions before it are still in `marked` when it is reduced.
C30_DceFunctionLocal ==
    \A k \in Runs("dce") : \A f \in DOMAIN asts[k] :
        asts[k + 1][f] = EliminatedAlone(asts[k][f])

C30_Witness ==
    \E k \in Runs("dce") :
        /\ Len(asts[k]) = 2
        /\ DceReduceFunction(DefaultEliminator, asts[k][1]).d.marked # {}
        /\ Len(BlockAssigns(asts[k + 1][2][3])) < Len(BlockAssigns(asts[k][2][3]))

-----------------------------------------------------------------------------
(* Further properties of the type checker.                                 *)

\* the scope of function k as the visits made so far leave it: the parameters of
\* a visited function, nothing for a function that is still to be visited
ScopeOf(k) ==
    [variables |-> IF k <= visited
                   THEN { items[k].input[i].identifier : i \in DOMAIN items[k].input }
                   ELSE {},
     functions |-> <<>>,
     parent |-> None]

\* the parameters of a function that carry a mode
ModedInputs(f) == { i \in DOMAIN f.input : f.input[i].mode # "None" }

\* C26: visit_function leaks no state of the function it visited: when it has
\* returned both annotation flags are false and the current scope is the global
\* scope again, without parent and with the scope of the function stored back in
\* it; so a function without the `program` annotation is reported with
\* HelperHasInputMode for each parameter with a mode, also after a `program`
\* function, and a function without a return is reported with FunctionHasNoReturn,
\* also after a function that returns.
C26_NoLeak ==
    /\ ~is_program_function
    /\ ~is_inlined
    /\ symbol_table.parent = None
    /\ symbol_table.variables = {}
    /\ DOMAIN symbol_table.functions = { i \in DOMAIN items : items[i].kind = "function" }
    /\ \A k \in DOMAIN symbol_table.functions : symbol_table.functions[k] = ScopeOf(k)
    /\ \A k \in VisitedFunctions :
          /\ Len(ErrorsAt("HelperHasInputMode", k))
                = IF "program" \in Range(items[k].annotations) THEN 0
                  ELSE Cardinality(ModedInputs(items[k]))
          /\ Len(ErrorsAt("FunctionHasNoReturn", k))
                = IF items[k].body.returns THEN 0 ELSE 1

\* a `program` function with a moded parameter and a return was visited, and after
\* it a function without annotation, with a moded parameter and without return
C26_Witness ==
    /\ visited = 2
    /\ VisitedFunctions = {1, 2}
    /\ "program" \in Range(items[1].annotations)
    /\ ModedInputs(items[1]) # {}
    /\ items[1].body.returns
    /\ items[2].annotations = <<>>
    /\ ModedInputs(items[2]) # {}
    /\ ~items[2].body.returns
    /\ ErrorsAt("HelperHasInputMode", 1) = <<>>
    /\ ErrorsAt("HelperHasInputMode", 2) # <<>>
    /\ ErrorsAt("FunctionHasNoReturn", 2) # <<>>
    /\ symbol_table.functions[1].variables # {}

=============================================================================
